------------------------------- MODULE SpiDma --------------------------------
(***************************************************************************)
(* SPI over DMA: one stream (channel, in the older controllers) brings the *)
(* bytes that come, another takes those that go; each one's completion     *)
(* interrupts, and the second ends the exchange.  The controllers of the   *)
(* families differ in what their handlers read and clear of the flags that *)
(* the streams share.                                                      *)
(***************************************************************************)
EXTENDS Integers, FiniteSets

CONSTANTS
  MaxLength,   \* bound: bytes of an exchange
  MaxChained   \* bound: exchanges started in the callback of another

ASSUME SpiAssumption == {MaxLength, MaxChained} \subseteq Nat

VARIABLES
  spi,         \* the family, and the streams of the bus that is used
  left,        \* bytes each stream is yet to move, 0: it does not run
  flag,        \* streams whose completion is flagged
  latched,     \* streams whose interrupt is pending
  invoked,     \* completions counted
  blocked,     \* the thread: "off", "starting", or waiting for both of them
  telling,     \* streams whose completion the handler is yet to be told of
  chained,     \* exchanges started in the callback
  early        \* history: an exchange ended before its bytes were moved

spiVars == <<spi, left, flag, latched, telling, invoked, blocked, chained, early>>

Streams == {spi.rx, spi.tx}

-----------------------------------------------------------------------------
(* The streams of each bus (numberToDmaRxChannel, numberToDmaTxChannel). *)

On(f, pairs) == {[family |-> f, rx |-> p[1], tx |-> p[2]] : p \in pairs}

BusesF0 == On("F0", {<<2, 3>>, <<4, 5>>, <<6, 7>>})
BusesF1 == On("F1", {<<2, 3>>, <<4, 5>>, <<1, 2>>})
BusesF4 == On("F4", ({0, 2} \X {3, 5}) \union {<<3, 4>>} \union ({0, 2} \X {5, 7}))
\* SPI5 compares with the streams of SPI3: 3 for its reception is the default only.
BusesF7 == On("F7", ({0, 2} \X {3, 5}) \union ({3, 1} \X {4, 6}) \union ({0, 2} \X {5, 7})
                    \union ({0, 3} \X {1, 4, 2}) \union {<<3, 4>>, <<5, 4>>, <<5, 6>>}
                    \union {<<6, 5>>})

-----------------------------------------------------------------------------
(* What a handler clears, and which streams it tells of their completion. *)

\* F0: channels that share a vector are read, cleared and told together.
SharedF0(k) == IF k = 1 THEN {1} ELSE IF k \in 2..3 THEN 2..3 ELSE 4..7
ClearedF0(k) == flag \intersect SharedF0(k)
ToldF0(k)    == ClearedF0(k)

\* F1: the handler of a channel reads its own flags only, that of channel 7, which
\* no bus uses, the flags of channel 6.
ReadF1(k)    == IF k = 7 THEN 6 ELSE k
ClearedF1(k) == flag \intersect {ReadF1(k)}
ToldF1(k)    == ClearedF1(k)

\* F4 and F7: four streams share a status register.  The handler of one clears
\* the flags of all, and takes its own to be eight bits apart, which they are in
\* streams 0, 2, 4 and 6: the completion of another reads as an error.
Half(k) == IF k < 4 THEN 0..3 ELSE 4..7
InPlace(k) == k % 2 = 0
ClearedF4(k) == flag \intersect Half(k)
ToldF4(k)    == {j \in ClearedF4(k) : j = k /\ InPlace(k)}
ClearedF7(k) == flag \intersect Half(k)
ToldF7(k)    == {j \in ClearedF7(k) : j = k /\ InPlace(k)}

Cleared(k) == CASE spi.family = "F0" -> ClearedF0(k) [] spi.family = "F1" -> ClearedF1(k)
                [] spi.family = "F4" -> ClearedF4(k) [] spi.family = "F7" -> ClearedF7(k)
Told(k)    == CASE spi.family = "F0" -> ToldF0(k) [] spi.family = "F1" -> ToldF1(k)
                [] spi.family = "F4" -> ToldF4(k) [] spi.family = "F7" -> ToldF7(k)

\* Buses whose streams are told of each completion: none of F4, one of F7.
Sound == spi.family \in {"F0", "F1"}
         \/ (InPlace(spi.rx) /\ InPlace(spi.tx) /\ Half(spi.rx) # Half(spi.tx))

-----------------------------------------------------------------------------
Completes(k) ==
  IF left[k] = 1 THEN flag' = flag \union {k} /\ latched' = latched \union {k}
  ELSE UNCHANGED <<flag, latched>>

\* The transmit stream is a byte ahead of the receive stream.
Moves(k) ==
  /\ left[k] > 0 /\ left' = [left EXCEPT ![k] = @ - 1] /\ Completes(k)
  /\ IF k = spi.tx THEN left[spi.rx] - left[k] < 2
     ELSE left[k] > left[spi.tx] /\ blocked # "starting"
  /\ UNCHANGED <<spi, telling, invoked, blocked, chained, early>>

\* read, write and exchange: the receive stream first, then the transmit stream,
\* one of them with a stub for a buffer.
ExchangeStarts(n) ==
  /\ telling = {} /\ blocked = "off" /\ \A k \in Streams : left[k] = 0
  /\ flag \union latched = {}
  /\ invoked' = 0 /\ left' = [left EXCEPT ![spi.rx] = n] /\ blocked' = "starting"
  /\ UNCHANGED <<spi, flag, latched, telling, chained, early>>

\* A caller that does not block goes on.
ExchangeGoesOn ==
  /\ blocked = "starting" /\ telling = {}
  /\ left' = [left EXCEPT ![spi.tx] = left[spi.rx]]
  /\ blocked' \in {"off", "waiting"}
  /\ UNCHANGED <<spi, flag, latched, telling, invoked, chained, early>>

Moved == \A k \in Streams : left[k] = 0

ExchangeEnds ==
  /\ blocked = "waiting" /\ telling = {} /\ invoked = 2 /\ blocked' = "off"
  /\ early' = (early \/ ~Moved)
  /\ UNCHANGED <<spi, left, flag, latched, telling, invoked, chained>>

\* The vector of a stream; of several, if they share it (F0).
DmaHandler(k) ==
  /\ telling = {} /\ k \in latched
  /\ flag' = flag \ Cleared(k)
  /\ latched' = IF spi.family = "F0" THEN latched \ SharedF0(k) ELSE latched \ {k}
  /\ telling' = Told(k)
  /\ UNCHANGED <<spi, left, invoked, blocked, chained, early>>

Next1(k) == k \in telling /\ \A j \in telling : k <= j

\* handler: the callback comes before the second completion is counted, so that
\* this one counts for an exchange that the callback starts.
SpiHandler(k) ==
  /\ Next1(k) /\ telling' = telling \ {k}
  /\ early' = (early \/ (invoked = 1 /\ ~Moved /\ chained = 0))
  /\ \/ invoked' = invoked + 1 /\ UNCHANGED <<left, chained>>
     \/ /\ invoked = 1 /\ blocked = "off" /\ chained < MaxChained /\ Moved
        /\ \E n \in 1..MaxLength : left' = [j \in Streams |-> n]
        /\ chained' = chained + 1 /\ invoked' = 1
  /\ UNCHANGED <<spi, flag, latched, blocked>>

SpiInit ==
  /\ spi \in BusesF0 \union BusesF1 \union BusesF4 \union BusesF7
  /\ left = [k \in Streams |-> 0] /\ flag = {} /\ latched = {} /\ telling = {}
  /\ invoked = 0 /\ blocked = "off" /\ chained = 0 /\ early = FALSE

SpiNext ==
  \/ \E k \in Streams : Moves(k) \/ DmaHandler(k) \/ SpiHandler(k)
  \/ \E n \in 1..MaxLength : ExchangeStarts(n)
  \/ ExchangeGoesOn \/ ExchangeEnds

-----------------------------------------------------------------------------
\* A caller that waits for its exchange gets away, on a bus whose streams are told
\* of each completion.
SpiEnded == Sound => blocked # "waiting"

\* A caller that goes on, and a callback that no other exchange was started in,
\* find all bytes moved.
SpiDoneMeansMoved == ~early
=============================================================================
