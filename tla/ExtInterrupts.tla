----------------------------- MODULE ExtInterrupts ----------------------------
(***************************************************************************)
(* External interrupts: an edge on a pin sets its flag; pins have vectors  *)
(* of their own or shared ones, whose handlers read the flags, clear them  *)
(* and call the callbacks of those that they read.                         *)
(***************************************************************************)
EXTENDS Integers, FiniteSetsExt

CONSTANTS
  Pins,      \* that have an ExtInterrupt
  MaxEdges   \* bound: edges, on all of them

ASSUME ExtInterruptsAssumption == Pins \subseteq 0..15 /\ MaxEdges \in Nat

VARIABLES
  extFamily,
  enabled,     \* pins whose requests are enabled
  flagged,     \* pins whose flags are set, enabled or not
  extIsr,      \* the handler that runs: its pins, where it is, those it has to call
  unanswered,  \* history: pins with an edge since their callbacks were last called
  overrun,     \* history: pins with an edge that a handler cleared without having read it
  called,      \* history: calls of the callback of each pin
  edges        \* edges of each pin

extVars == <<extFamily, enabled, flagged, extIsr, unanswered, overrun, called, edges>>

NoExtIsr == [pins |-> {}, at |-> "off", calls |-> {}]

-----------------------------------------------------------------------------
(* The vectors of each family.  A handler of one pin does not read flags; *)
(* of the others some clear what they have read, some all their pins.     *)

Single(n)      == [pins |-> {n}, reads |-> FALSE, clears |-> "all"]
Exact(p)       == [pins |-> p, reads |-> TRUE, clears |-> "read"]
Careless(p)    == [pins |-> p, reads |-> TRUE, clears |-> "all"]

vectorsF0 == {Exact({0, 1}), Exact({2, 3}), Careless(4..15)}
vectorsF1 == {Single(n) : n \in 0..4} \union {Careless(5..9), Careless(10..15)}
vectorsF4 == {Single(n) : n \in 0..4} \union {Careless(5..9), Careless(10..15)}
vectorsF7 == {Single(n) : n \in 0..4} \union {Careless(5..9), Careless(10..15)}

ExtVectors == CASE extFamily = "F0" -> vectorsF0 [] extFamily = "F1" -> vectorsF1
                [] extFamily = "F4" -> vectorsF4 [] extFamily = "F7" -> vectorsF7

\* numberToIrq, the pins of the vector that a constructor enables.
irqPinsF0(n) == CASE n \in {0, 1} -> {0, 1} [] n \in {2, 3} -> {2, 3} [] OTHER -> 4..15
irqPinsF1(n) == CASE n \in 0..4 -> {n} [] n \in 5..9 -> 5..9 [] OTHER -> 10..15
irqPinsF4(n) == CASE n \in 0..4 -> {n} [] n \in 5..9 -> 5..9 [] OTHER -> 10..15
irqPinsF7(n) == CASE n \in 0..4 -> {n} [] n \in 5..9 -> 5..9 [] OTHER -> 10..15

irqPins(n) == CASE extFamily = "F0" -> irqPinsF0(n) [] extFamily = "F1" -> irqPinsF1(n)
                [] extFamily = "F4" -> irqPinsF4(n) [] extFamily = "F7" -> irqPinsF7(n)

\* The constructors have enabled these.
Listening(v) == \E n \in Pins : irqPins(n) = v.pins
-----------------------------------------------------------------------------
\* An edge sets the flag of a pin, be its request enabled or not.
Edge(n) ==
  /\ MapThenSumSet(LAMBDA m : edges[m], Pins) < MaxEdges
  /\ edges' = [edges EXCEPT ![n] = @ + 1]
  /\ flagged' = flagged \union {n}
  /\ unanswered' = unanswered \union {n}
  /\ UNCHANGED <<extFamily, enabled, extIsr, overrun, called>>

Due(v) == v.pins \intersect flagged \intersect enabled # {} /\ Listening(v)

\* The thread runs while no handler does or has to.
ThreadRuns == extIsr = NoExtIsr /\ \A v \in ExtVectors : ~Due(v)

enableRequest(n) ==
  /\ ThreadRuns /\ n \notin enabled /\ enabled' = enabled \union {n}
  /\ UNCHANGED <<extFamily, flagged, extIsr, unanswered, overrun, called, edges>>
disableRequest(n) ==
  /\ ThreadRuns /\ n \in enabled /\ enabled' = enabled \ {n}
  /\ UNCHANGED <<extFamily, flagged, extIsr, unanswered, overrun, called, edges>>

\* A handler reads the flags of its pins.
EnterHandler ==
  /\ extIsr = NoExtIsr
  /\ \E v \in ExtVectors :
       /\ Due(v)
       /\ extIsr' = [pins |-> v.pins, at |-> "clear",
                     calls |-> IF v.reads THEN v.pins \intersect flagged ELSE v.pins]
  /\ UNCHANGED <<extFamily, enabled, flagged, unanswered, overrun, called, edges>>

\* Slip: every handler clears all its pins.
ClearsAll(v, read) == v.pins
\* What it clears of its pins, having read those that it will call.
Clears(v, read) == IF v.clears = "read" THEN read ELSE v.pins

ClearFlags ==
  /\ extIsr.at = "clear"
  /\ LET v == CHOOSE v \in ExtVectors : v.pins = extIsr.pins
         gone == Clears(v, extIsr.calls)
     IN /\ flagged' = flagged \ gone
        /\ overrun' = overrun \union ((flagged \intersect gone) \ extIsr.calls)
  /\ extIsr' = [extIsr EXCEPT !.at = "call"]
  /\ UNCHANGED <<extFamily, enabled, unanswered, called, edges>>

Least(p) == CHOOSE n \in p : \A m \in p : n <= m

\* The callbacks are called from the first pin on.
CallBack ==
  /\ extIsr.at = "call" /\ extIsr.calls # {}
  /\ LET n == Least(extIsr.calls)
     IN /\ extIsr' = [extIsr EXCEPT !.calls = @ \ {n}]
        /\ unanswered' = unanswered \ {n}
        /\ called' = [called EXCEPT ![n] = @ + 1] /\ overrun' = overrun \ {n}
  /\ UNCHANGED <<extFamily, enabled, flagged, edges>>

LeaveHandler ==
  /\ extIsr.at = "call" /\ extIsr.calls = {} /\ extIsr' = NoExtIsr
  /\ UNCHANGED <<extFamily, enabled, flagged, unanswered, overrun, called, edges>>

ExtInit ==
  /\ extFamily \in {"F0", "F1", "F4", "F7"}
  /\ enabled = {} /\ flagged = {} /\ extIsr = NoExtIsr
  /\ unanswered = {} /\ overrun = {}
  /\ edges = [n \in Pins |-> 0] /\ called = edges

ExtHandler == EnterHandler \/ ClearFlags \/ CallBack \/ LeaveHandler
ExtNext == ExtHandler \/ \E n \in Pins : Edge(n) \/ enableRequest(n) \/ disableRequest(n)

-----------------------------------------------------------------------------
\* No callback is called but for an edge.  An edge is lost only where a handler clears
\* flags that it has not read, which those of several pins do but for the two of pins
\* 0 to 3 on F0; elsewhere a flag or the handler still stands for it.
NoEdgeIsLost ==
  /\ \A n \in unanswered : n \in flagged \union extIsr.calls \/ n \in overrun
  /\ \A n \in Pins : called[n] <= edges[n]
  /\ \A n \in overrun : n >= 4 /\ Cardinality(irqPins(n)) > 1

\* An edge of an enabled pin is answered, unless it was lost or the pin disabled.
Awaits(n)   == n \in (unanswered \intersect enabled) \ overrun
EdgesServed == \A n \in Pins : ~Awaits(n)
=============================================================================
