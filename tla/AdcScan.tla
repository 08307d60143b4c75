------------------------------- MODULE AdcScan -------------------------------
(***************************************************************************)
(* Conversions of several channels that DMA puts into a buffer round and   *)
(* round: AdcBus keeps one scan of the channels and calls back when it is  *)
(* complete, AdcBusBuffered keeps several and calls back with each half of *)
(* the places, while the other half is being filled.                       *)
(***************************************************************************)
EXTENDS Integers

CONSTANTS
  Channels,     \* of a scan
  Samples,      \* of the buffer of AdcBusBuffered
  MaxScans,     \* bound: scans
  MaxAdcStarts  \* bound: calls of start()

ASSUME AdcAssumption ==
  /\ {Channels, Samples, MaxScans, MaxAdcStarts} \subseteq Nat
  /\ Channels > 0 /\ Samples >= 2 * Channels

VARIABLES
  adc,         \* the class that is used, and what starts its scans
  scan,        \* channels of the scan yet to be converted
  dmaLeft,     \* conversions until DMA begins the places again, 0: it does not run
  places,      \* number of the conversion in each place
  converted,   \* conversions so far
  dmaFlags,    \* half of the places, or all of it, was filled
  window,      \* what the callback is looking at, or nothing
  shown,        \* history: the last conversion that was shown or given up
  late,        \* history: the handler or the callback was too slow, since start()
  scans, adcStarts

adcVars == <<adc, scan, dmaLeft, places, converted, dmaFlags, window, shown, late, scans, adcStarts>>

Closed == [from |-> 0, count |-> 0, due |-> 0]

-----------------------------------------------------------------------------
(* The constructors: one conversion of each channel for a trigger, into a  *)
(* circular places.                                                        *)

AdcBus(trigger)         == [count |-> Channels, buffered |-> FALSE, trigger |-> trigger]
AdcBusBuffered(trigger) == [count |-> Samples, buffered |-> TRUE, trigger |-> trigger]

\* DmaChannel: the half interrupts only if it is asked for.
Interrupting == dmaFlags \intersect ({"complete"} \union (IF adc.buffered THEN {"half"} ELSE {}))

\* DmaChannel::start(): flags that are raised stay.
DmaStarts == dmaLeft' = adc.count

FirstHalf == adc.count \div 2

\* start(), of the thread or in the callback.  A scan begins at once unless a timer
\* begins them.
AdcStarts ==
  /\ scan = 0 /\ adcStarts < MaxAdcStarts /\ adcStarts' = adcStarts + 1
  /\ DmaStarts
  /\ scan' \in (IF adc.trigger = "none" THEN {Channels} ELSE {0, Channels})
  /\ shown' = converted /\ late' = (dmaFlags # {} \/ (late /\ window # Closed))
  /\ UNCHANGED <<adc, places, converted, dmaFlags, window, scans>>

TimerTriggers ==
  /\ adc.trigger = "timer" /\ scan = 0 /\ dmaLeft > 0
  /\ scans < MaxScans /\ scans' = scans + 1 /\ scan' = Channels
  /\ UNCHANGED <<adc, dmaLeft, places, converted, dmaFlags, window, shown, late, adcStarts>>

Raised(left) == IF left = 0 THEN {"complete"}
                ELSE IF left = adc.count - FirstHalf THEN {"half"} ELSE {}

InWindow(p) == p \in window.from..(window.from + window.count - 1)

Converts ==
  /\ scan > 0 /\ scan' = scan - 1 /\ converted' = converted + 1
  /\ LET left == dmaLeft - 1
         p    == adc.count - dmaLeft
     IN /\ places' = [places EXCEPT ![p] = converted + 1]
        /\ dmaLeft' = IF left = 0 THEN adc.count ELSE left
        /\ dmaFlags' = dmaFlags \union Raised(left)
        /\ late' = (late \/ InWindow(p)
                    \/ (Interrupting # {} /\ (Raised(left) # {} \/ ~adc.buffered)))
  /\ UNCHANGED <<adc, window, shown, scans, adcStarts>>

-----------------------------------------------------------------------------
\* handler() of AdcBusBuffered: of both halves, the first.
Shown(flags) ==
  IF "half" \in flags THEN [from |-> 0, count |-> FirstHalf]
  ELSE IF "complete" \in flags THEN [from |-> FirstHalf, count |-> adc.count - FirstHalf]
  ELSE Closed

\* handler() of AdcBus.
ShownAll(flags) == IF "complete" \in flags THEN [from |-> 0, count |-> adc.count] ELSE Closed

AdcHandler ==
  /\ window = Closed /\ Interrupting # {} /\ dmaFlags' = {}
  /\ LET w == IF adc.buffered THEN Shown(dmaFlags) ELSE ShownAll(dmaFlags)
     IN /\ window' = [from |-> w.from, count |-> w.count, due |-> shown + 1]
        /\ shown' = shown + w.count
  /\ UNCHANGED <<adc, scan, dmaLeft, places, converted, late, scans, adcStarts>>

AdcCallbackReturns ==
  /\ window # Closed /\ window' = Closed
  /\ UNCHANGED <<adc, scan, dmaLeft, places, converted, dmaFlags, shown, late, scans, adcStarts>>

AdcInit ==
  /\ adc \in {AdcBus(t) : t \in {"none", "timer"}} \union {AdcBusBuffered(t) : t \in {"none", "timer"}}
  /\ scan = 0 /\ dmaLeft = 0 /\ places = [p \in 0..(adc.count - 1) |-> 0] /\ converted = 0
  /\ dmaFlags = {} /\ window = Closed /\ shown = 0 /\ late = FALSE /\ scans = 0 /\ adcStarts = 0

AdcNext == AdcStarts \/ TimerTriggers \/ Converts \/ AdcHandler \/ AdcCallbackReturns

-----------------------------------------------------------------------------
\* Every conversion since start() is shown to the callback, once and in order, as
\* long as the handler comes before the next half is filled (of AdcBus, before the
\* next scan begins) and the callback returns before its own half is filled again.
ScansAreShown ==
  ~late => \A i \in 1..window.count : places[window.from + i - 1] = window.due + i - 1
=============================================================================
