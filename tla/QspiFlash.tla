------------------------------ MODULE QspiFlash -------------------------------
(***************************************************************************)
(* The NOR flash behind the QUADSPI peripheral: write() cuts what it is    *)
(* given at the borders of pages, because a page that is programmed wraps  *)
(* at its end; erase() goes block by block.  The flash may cease to        *)
(* answer, which its status shows: every read of it gives 0xFF then.       *)
(*                                                                         *)
(* A byte is the number of the write that programmed it, if it was erased  *)
(* before.                                                                 *)
(***************************************************************************)
EXTENDS Integers

CONSTANTS
  kPageSize,         \* bytes programmed at once
  kBlock64kbSize,    \* bytes erased at once
  kSizeLimit,        \* bytes of the flash
  MaxQspiCalls       \* bound: calls

ASSUME QspiAssumption ==
  /\ {kPageSize, kBlock64kbSize, kSizeLimit} \subseteq Nat \ {0} /\ MaxQspiCalls \in Nat
  /\ kBlock64kbSize % kPageSize = 0 /\ kSizeLimit % kBlock64kbSize = 0

VARIABLES
  nor,           \* bytes of the flash, 0: erased, -1: programmed twice
  answers,       \* the flash answers
  qspiCall,      \* what runs: its kind, its range and its result
  currentOffset, bytesToWrite,   \* of the call
  lost,          \* history: bytes of the call its pages did not program
  before,        \* history: the flash when the call began
  qspiCalls

qspiVars == <<nor, answers, qspiCall, currentOffset, bytesToWrite, lost, before, qspiCalls>>

Places   == 0..(kSizeLimit - 1)
Idle     == [kind |-> "none", offset |-> 0, length |-> 0, result |-> "none"]
Running(kind) == qspiCall.kind = kind /\ qspiCall.result = "none"
Free     == qspiCall.kind = "none" \/ qspiCall.result # "none"
Span(o, n) == o..(o + n - 1)

Begins(kind, o, n, result) ==
  /\ Free /\ qspiCalls < MaxQspiCalls /\ qspiCalls' = qspiCalls + 1
  /\ qspiCall' = [kind |-> kind, offset |-> o, length |-> n, result |-> result]
  /\ currentOffset' = o /\ bytesToWrite' = n /\ lost' = {} /\ before' = nor
  /\ UNCHANGED <<nor, answers>>

Returns(result) == qspiCall' = [qspiCall EXCEPT !.result = result]

\* The flash is gone.
FallsSilent ==
  /\ answers /\ answers' = FALSE
  /\ UNCHANGED <<nor, qspiCall, currentOffset, bytesToWrite, lost, before, qspiCalls>>

-----------------------------------------------------------------------------
write(o, n) ==
  Begins("write", o, n, IF o + n > kSizeLimit \/ ~answers THEN "false"
                        ELSE IF n = 0 THEN "true" ELSE "none")

erase(o, n) ==
  Begins("erase", o, n,
         IF \/ n < kBlock64kbSize \/ o > kSizeLimit - kBlock64kbSize
            \/ o % kBlock64kbSize # 0 \/ n % kBlock64kbSize # 0 \/ o + n > kSizeLimit
         THEN "false" ELSE "none")

\* What of the write fits into the page.
bytesToNextPage == (currentOffset \div kPageSize + 1) * kPageSize - currentOffset

\* The program of n bytes at o goes round in its page.
Wrapped(o, i) == (o \div kPageSize) * kPageSize + (((o % kPageSize) + i) % kPageSize)
Programmed(o, n) == {Wrapped(o, i) : i \in 0..(n - 1)}

\* writePage(), and the turn of the loop that calls it: a page that the flash does
\* not answer for ends the call only if it is the last.
writePage ==
  /\ Running("write")
  /\ LET rest  == bytesToNextPage
         last  == IF currentOffset % kPageSize = 0 THEN bytesToWrite <= kPageSize
                  ELSE bytesToWrite < rest
         n     == IF last THEN bytesToWrite ELSE rest
         cells == Programmed(currentOffset, n)
     IN /\ nor' = [a \in Places |-> IF a \notin cells \/ ~answers THEN nor[a]
                                    ELSE IF nor[a] = 0 THEN qspiCalls ELSE -1]
        /\ lost' = IF answers THEN lost ELSE lost \union Span(currentOffset, n)
        /\ currentOffset' = currentOffset + n /\ bytesToWrite' = bytesToWrite - n
        /\ \/ last /\ Returns(IF answers THEN "true" ELSE "false")
           \/ ~last /\ IF bytesToWrite' = 0 THEN Returns("true") ELSE UNCHANGED qspiCall
  /\ UNCHANGED <<answers, before, qspiCalls>>

eraseBlock ==
  /\ Running("erase")
  /\ IF ~answers THEN Returns("false") /\ UNCHANGED <<nor, currentOffset>>
     ELSE /\ nor' = [a \in Places |->
                       IF a \in Span(currentOffset, kBlock64kbSize) THEN 0 ELSE nor[a]]
          /\ currentOffset' = currentOffset + kBlock64kbSize
          /\ IF currentOffset' >= qspiCall.offset + qspiCall.length \/ currentOffset' >= kSizeLimit
             THEN Returns("true") ELSE UNCHANGED qspiCall
  /\ UNCHANGED <<answers, bytesToWrite, lost, before, qspiCalls>>

QspiInit ==
  /\ nor = [a \in Places |-> 0] /\ answers = TRUE /\ qspiCall = Idle
  /\ currentOffset = 0 /\ bytesToWrite = 0 /\ lost = {} /\ before = nor /\ qspiCalls = 0

QspiNext ==
  \/ \E o \in 0..kSizeLimit, n \in 0..kSizeLimit : write(o, n) \/ erase(o, n)
  \/ writePage \/ eraseBlock \/ FallsSilent

-----------------------------------------------------------------------------
\* A call touches nothing out of its range; one that returns true programmed what
\* was erased, or erased, all of it, except pages before the last that the flash did
\* not answer for (write() does not look at their results).
QspiDoneMeansMoved ==
  LET range == Span(qspiCall.offset, qspiCall.length)
  IN /\ \A a \in Places \ range : nor[a] = before[a]
     /\ qspiCall.result = "true" =>
          /\ qspiCall.kind = "write" =>
               \A a \in range \ lost : before[a] = 0 => nor[a] = qspiCalls
          /\ qspiCall.kind = "erase" => \A a \in range : nor[a] = 0
=============================================================================
