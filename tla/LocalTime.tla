------------------------------ MODULE LocalTime ------------------------------
(***************************************************************************)
(* The clock: a counter of the core that counts down and starts again, an  *)
(* interrupt for each time it does, and the seconds and microseconds that  *)
(* the interrupt keeps and timestamp() puts together with the counter.     *)
(***************************************************************************)
EXTENDS Naturals

CONSTANTS
  kReloadValue,   \* ticks of the counter
  prescaler,      \* ticks of a microsecond
  Second,         \* microseconds of a second
  MaxReloads      \* bound: times the counter starts again

ASSUME TimeAssumption ==
  /\ {kReloadValue, prescaler, Second} \subseteq Nat \ {0} /\ MaxReloads \in Nat
  /\ kReloadValue \div prescaler <= Second

VARIABLES
  counter,        \* value of the counter
  reloaded,       \* its interrupt is pending
  seconds, micros,    \* what the handler keeps
  reading,        \* timestamp(): where it is, what it read so far
  time,           \* the last result, in microseconds
  reloads

timeVars == <<counter, reloaded, seconds, micros, reading, time, reloads>>

Nothing == [at |-> "off", seconds |-> 0, micros |-> 0, ticks |-> 0]

\* The counter is zero for a single tick, which no handler is as fast as.
Count ==
  /\ IF counter > 0
     THEN counter' = counter - 1 /\ UNCHANGED <<reloads, reloaded>>
     ELSE /\ counter' = kReloadValue - 1
          /\ ~reloaded /\ reloaded' = TRUE
          /\ reloads < MaxReloads /\ reloads' = reloads + 1
  /\ UNCHANGED <<seconds, micros, reading, time>>

sys_tick_handler ==
  /\ reloaded /\ reloaded' = FALSE
  /\ LET sum == micros + kReloadValue \div prescaler
     IN IF sum >= Second THEN seconds' = seconds + 1 /\ micros' = sum - Second
        ELSE micros' = sum /\ UNCHANGED seconds
  /\ UNCHANGED <<counter, reading, time, reloads>>

\* Slip: what the handler keeps is not read again.
SettledOnce(r) == TRUE

\* What the handler keeps has not changed since.
Settled(r) == r.seconds = seconds /\ r.micros = micros

\* timestamp() in the thread: an interrupt that is pending comes first.
timestamp ==
  /\ ~reloaded
  /\ \/ /\ reading.at = "off" /\ reading' = [Nothing EXCEPT !.at = "micros", !.seconds = seconds]
        /\ UNCHANGED time
     \/ /\ reading.at = "micros" /\ reading' = [reading EXCEPT !.at = "ticks", !.micros = micros]
        /\ UNCHANGED time
     \/ /\ reading.at = "ticks"
        /\ reading' = [reading EXCEPT !.at = "check", !.ticks = kReloadValue - counter]
        /\ UNCHANGED time
     \/ /\ reading.at = "check" /\ reading' = Nothing
        /\ time' = IF Settled(reading)
                   THEN reading.seconds * Second + reading.micros + reading.ticks \div prescaler
                   ELSE time
  /\ UNCHANGED <<counter, reloaded, seconds, micros, reloads>>

TimeInit ==
  /\ counter = kReloadValue - 1 /\ reloaded = FALSE /\ seconds = 0 /\ micros = 0
  /\ reading = Nothing /\ time = 0 /\ reloads = 0

TimeNext == Count \/ sys_tick_handler \/ timestamp

-----------------------------------------------------------------------------
\* Time, as the thread reads it, never goes back, wherever the interrupt falls.
TimeIsMonotone == [][time' >= time]_time
=============================================================================
