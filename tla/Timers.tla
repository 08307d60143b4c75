------------------------------- MODULE Timers --------------------------------
(***************************************************************************)
(* The timers of the controllers and the interrupts that serve them.  Some *)
(* controllers have interrupts that two timers share: the vector is named  *)
(* here by the timers it calls, in their order.                            *)
(*                                                                         *)
(* What a counter counts is left out: an update comes some time after the  *)
(* start, having counted reload + 1 ticks.                                 *)
(***************************************************************************)
EXTENDS Integers, Sequences, FiniteSets

CONSTANTS
  ShortResolution, LongResolution,  \* last values of 16 bits and of 32 bits
  AllPeriods,        \* that timers are started with
  Plans,             \* timers that firmwares make
  Frequency, Hclk,   \* of the ticks, of the controller
  MaxStarts          \* bound: starts

ASSUME TimersAssumption ==
  /\ {ShortResolution, LongResolution, Frequency, Hclk} \subseteq Nat \ {0}
  /\ ShortResolution <= LongResolution /\ (LongResolution + 1) % (ShortResolution + 1) = 0
  /\ AllPeriods \subseteq 0..LongResolution /\ MaxStarts \in Nat
  /\ Plans \subseteq SUBSET (1..17)

VARIABLES
  timFamily, divider,  \* of the controller, its two buses' dividers
  planned,     \* the timers that the firmware makes
  timers,      \* those that are made
  vectors,     \* those that are enabled
  serving,     \* timers that the handler has still to call
  timersDead,  \* a handler that is not there was called
  spurious,    \* history: timers whose callbacks came without an update
  starts

timersVars == <<timFamily, divider, planned, timers, vectors, serving, timersDead, spurious, starts>>

-----------------------------------------------------------------------------
(* numberToIrq, of each family. *)

numberToIrqF0 == [n \in {1, 2, 3, 6, 7, 14, 15, 16, 17} |-> <<n>>]
numberToIrqF1 == [n \in 1..8 |-> <<n>>]
numberToIrqF4 ==
  [n \in 1..14 |-> CASE n \in {1, 10} -> <<1, 10>> [] n \in {8, 13} -> <<8, 13>>
                     [] n = 9 -> <<1, 9>> [] n = 11 -> <<1, 11>> [] n = 12 -> <<8, 12>>
                     [] n = 14 -> <<4>> [] OTHER -> <<n>>]
numberToIrqF7 == numberToIrqF4

numberToIrq == CASE timFamily = "F0" -> numberToIrqF0 [] timFamily = "F1" -> numberToIrqF1
                 [] timFamily = "F4" -> numberToIrqF4 [] timFamily = "F7" -> numberToIrqF7

\* The vector that an update of timer n raises in the controller.
Raises(n) == IF n = 14 /\ timFamily \in {"F4", "F7"} THEN <<8, 14>> ELSE numberToIrq[n]

(* The vectors that are written, each calls the timers of its name. *)

handlersF0 == {<<n>> : n \in {1, 2, 3, 6, 7, 14, 15, 16, 17}}
handlersF1 == {<<n>> : n \in 1..8}
handlersF4 == {<<n>> : n \in 2..7} \union {<<1, 10>>, <<8, 13>>, <<1, 9>>, <<8, 12>>, <<8, 14>>}
handlersF7 == handlersF4

handlers == CASE timFamily = "F0" -> handlersF0 [] timFamily = "F1" -> handlersF1
              [] timFamily = "F4" -> handlersF4 [] timFamily = "F7" -> handlersF7

numberToResolutionF0(n) == IF n = 2 THEN LongResolution ELSE ShortResolution
numberToResolutionF1(n) == ShortResolution
numberToResolutionF4(n) == IF n \in {2, 5} THEN LongResolution ELSE ShortResolution
numberToResolutionF7(n) == numberToResolutionF4(n)

Resolution(n) ==
  CASE timFamily = "F0" -> numberToResolutionF0(n) [] timFamily = "F1" -> numberToResolutionF1(n)
    [] timFamily = "F4" -> numberToResolutionF4(n) [] timFamily = "F7" -> numberToResolutionF7(n)

(* clock(): the frequency of the bus, or twice that where it is divided. *)

BusClock(b) == IF divider[b] = 1 THEN Hclk ELSE (Hclk \div divider[b]) * 2
clockF0(n)  == BusClock(1)
clockF1(n)  == BusClock(IF n \in 2..7 THEN 1 ELSE 2)
clockF4(n)  == BusClock(IF n \in 2..7 \union 12..14 THEN 1 ELSE 2)
clockF7(n)  == clockF4(n)

clock(n) == CASE timFamily = "F0" -> clockF0(n) [] timFamily = "F1" -> clockF1(n)
              [] timFamily = "F4" -> clockF4(n) [] timFamily = "F7" -> clockF7(n)

-----------------------------------------------------------------------------
Made == DOMAIN timers

\* The register takes as many bits as the counter has.
Period(n, value) == value % (Resolution(n) + 1)
Wrap32(value)      == value % (LongResolution + 1)

\* The constructor; the prescaler has 16 bits.
MakeTimer(n, period, continuous) ==
  /\ n \in planned \ Made /\ serving = <<>>
  /\ LET t == [running |-> FALSE, continuous |-> continuous, update |-> FALSE, callback |-> TRUE,
               asked |-> period, reload |-> Period(n, Wrap32(period - 1)),
               prescaler |-> (clock(n) \div Frequency - 1) % (ShortResolution + 1)]
     IN timers' = [m \in Made \union {n} |-> IF m = n THEN t ELSE timers[m]]
  /\ vectors' = vectors \union {numberToIrq[n]}
  /\ UNCHANGED <<timFamily, divider, planned, serving, timersDead, spurious, starts>>

\* No period is shorter than two ticks; one of 0 wraps.
Started(n, period) ==
  [timers[n] EXCEPT !.running = TRUE, !.asked = period,
     !.reload = Period(n, IF Wrap32(period - 1) < 1 THEN 1 ELSE Wrap32(period - 1))]

\* A counter whose limit is 0 does not count; one of a single shot stops.
Updates(n) ==
  /\ n \in Made /\ timers[n].running /\ timers[n].reload # 0 /\ ~timers[n].update
  /\ timers' = [timers EXCEPT ![n].update = TRUE, ![n].running = timers[n].continuous]
  /\ UNCHANGED <<timFamily, divider, planned, vectors, serving, timersDead, spurious, starts>>

Requested(n) == timers[n].update /\ timers[n].callback /\ Raises(n) \in vectors
Preempted  == serving # <<>> \/ \E n \in Made : Requested(n)

\* The thread runs while no interrupt is pending.
ThreadSets(n, t) ==
  /\ ~Preempted /\ ~timersDead
  /\ timers' = [timers EXCEPT ![n] = t]
  /\ UNCHANGED <<timFamily, divider, planned, vectors, serving, timersDead, spurious>>

start(n, period) ==
  n \in Made /\ starts < MaxStarts /\ starts' = starts + 1 /\ ThreadSets(n, Started(n, period))
enable(n)  ==
  /\ n \in Made /\ starts < MaxStarts /\ starts' = starts + 1
  /\ ThreadSets(n, [timers[n] EXCEPT !.running = TRUE])
disable(n) ==
  n \in Made /\ timers[n].running /\ UNCHANGED starts /\ ThreadSets(n, [timers[n] EXCEPT !.running = FALSE])
setCallback(n, some) ==
  /\ n \in Made /\ timers[n].callback # some /\ UNCHANGED starts
  /\ ThreadSets(n, [timers[n] EXCEPT !.callback = some])

\* The vector of timer n; one that is not written stops the program.
EnterVector(n) ==
  /\ serving = <<>> /\ ~timersDead /\ n \in Made /\ Requested(n)
  /\ IF Raises(n) \in handlers
     THEN serving' = Raises(n) /\ UNCHANGED timersDead
     ELSE timersDead' = TRUE /\ UNCHANGED serving
  /\ UNCHANGED <<timFamily, divider, planned, timers, vectors, spurious, starts>>

\* handleIrq(): F0 and F4 look whether there is a timer, of those only F4 shares vectors.
CallMissing ==
  /\ serving # <<>> /\ Head(serving) \notin Made
  /\ serving' = IF timFamily \in {"F0", "F4"} THEN Tail(serving) ELSE <<>>
  /\ timersDead' = (timFamily \notin {"F0", "F4"})
  /\ UNCHANGED <<timFamily, divider, planned, timers, vectors, spurious, starts>>

\* handler(): the flag is cleared first, so that the callback may start it again.
CallTimer ==
  /\ serving # <<>> /\ Head(serving) \in Made /\ serving' = Tail(serving)
  /\ LET n == Head(serving)
         cleared == [timers[n] EXCEPT !.update = FALSE]
     IN /\ spurious' = IF timers[n].callback /\ ~timers[n].update THEN spurious \union {n} ELSE spurious
        /\ \/ timers' = [timers EXCEPT ![n] = cleared] /\ UNCHANGED starts
           \/ /\ timers[n].callback /\ starts < MaxStarts /\ starts' = starts + 1
              /\ \E p \in AllPeriods :
                   timers' = [timers EXCEPT ![n] = [Started(n, p) EXCEPT !.update = FALSE]]
  /\ UNCHANGED <<timFamily, divider, planned, vectors, timersDead>>

TimersInit ==
  /\ timFamily \in {"F0", "F1", "F4", "F7"}
  /\ divider \in {<<1, 2>>, <<2, 1>>}
  /\ planned \in {plan \in Plans : plan \subseteq DOMAIN numberToIrq}
  /\ timers = << >> /\ vectors = {} /\ serving = <<>> /\ timersDead = FALSE /\ spurious = {}
  /\ starts = 0

HandlerStep == (\E n \in planned : EnterVector(n)) \/ CallMissing \/ CallTimer
TimersNext ==
  \/ HandlerStep
  \/ \E n \in planned : \/ Updates(n) \/ enable(n) \/ disable(n)
                        \/ \E p \in AllPeriods : start(n, p)
                        \/ \E p \in AllPeriods, some \in BOOLEAN : MakeTimer(n, p, some)
                        \/ \E some \in BOOLEAN : setCallback(n, some)

-----------------------------------------------------------------------------
\* A timer whose vector is the one it enables, is written, and calls nothing else
\* that is there (or, but on F4, nothing else at all).
SoundTimer(n) ==
  /\ Raises(n) = numberToIrq[n] /\ Raises(n) \in handlers
  /\ \A v \in handlers : n \in {v[k] : k \in 1..Len(v)} =>
       IF timFamily = "F4" THEN planned \intersect {v[k] : k \in 1..Len(v)} = {n} ELSE Len(v) = 1

\* A timer with a vector of its own calls back after its own updates only, those come
\* after the periods that were asked for, as far as the counter reaches, in ticks of
\* the frequency that was asked for, or of one that is higher by what the division of
\* the clock leaves; and none of them stops the program.
TimersAreHonest ==
  /\ \A n \in Made : SoundTimer(n) =>
       /\ n \notin spurious
       /\ timers[n].asked \in 2..(Resolution(n) + 1) => timers[n].reload + 1 = timers[n].asked
       /\ clock(n) \div Frequency \in 1..(ShortResolution + 1) =>
            clock(n) - (timers[n].prescaler + 1) * Frequency \in 0..(Frequency - 1)
  /\ timersDead => \E n \in planned : ~SoundTimer(n)

\* An update of such a timer is called back, unless the callback is taken away.
TimerOwed(n) == n \in Made /\ SoundTimer(n) /\ timers[n].update /\ timers[n].callback
TimersFired  == \A n \in planned : ~TimerOwed(n)
=============================================================================
