------------------------------ MODULE WorkQueue ------------------------------
(***************************************************************************)
(* The main loop: interrupts queue tasks, the loop runs them, and sleeps   *)
(* when there is none.  It has an idle task, or sleeps, or, in a debug     *)
(* build, goes round.  Sleep ends with the next interrupt, masked or not.  *)
(***************************************************************************)
EXTENDS Naturals

CONSTANTS
  TaskSlots,   \* size of the queue
  MaxTasks     \* bound: interrupts that have a task to add

ASSUME WorkAssumption == TaskSlots \in Nat \ {0} /\ MaxTasks \in Nat

VARIABLES
  loop,        \* "sleeping" or "spinning": what the loop does when idle
  at,          \* where the loop is
  masked,      \* interrupts are disabled
  raised,      \* an interrupt is pending
  tasks,       \* queued
  raises, refused   \* interrupts so far; a task was not taken

workVars == <<loop, at, masked, raised, tasks, raises, refused>>

Raise ==
  /\ raises < MaxTasks /\ ~raised
  /\ raised' = TRUE /\ raises' = raises + 1
  /\ UNCHANGED <<loop, at, masked, tasks, refused>>

\* The handler of the interrupt adds its task, if there is space.
add ==
  /\ raised /\ ~masked /\ at # "asleep" /\ raised' = FALSE
  /\ tasks' = IF tasks < TaskSlots THEN tasks + 1 ELSE tasks
  /\ refused' = (refused \/ tasks = TaskSlots)
  /\ UNCHANGED <<loop, at, masked, raises>>

\* Slip: the queue is looked at before the interrupts are disabled.
IdlesUnmasked ==
  \/ at = "idle" /\ masked' = FALSE /\ at' = IF tasks = 0 THEN "test" ELSE "work"
  \/ at = "test" /\ masked' = TRUE /\ at' = "asleep"
  \/ at = "asleep" /\ raised /\ masked' = FALSE /\ at' = "work"

\* Interrupts stay disabled between the test of the queue and the sleep.
Idles ==
  \/ at = "idle" /\ masked' = TRUE /\ at' = "test"
  \/ at = "test" /\ tasks = 0 /\ at' = "asleep" /\ UNCHANGED masked
  \/ at = "test" /\ tasks > 0 /\ at' = "work" /\ masked' = FALSE
  \/ at = "asleep" /\ raised /\ at' = "work" /\ masked' = FALSE

\* An interrupt that is pending and enabled comes before the next step of the loop.
Undisturbed == ~raised \/ masked \/ at = "asleep"

\* Release build without an idle task; with one, and in a debug build, no sleep.
RunIdle ==
  /\ loop = "sleeping" /\ Undisturbed /\ Idles
  /\ UNCHANGED <<loop, raised, tasks, raises, refused>>

RunSpins ==
  /\ loop = "spinning" /\ Undisturbed /\ at = "idle" /\ at' = "work"
  /\ UNCHANGED <<loop, masked, raised, tasks, raises, refused>>

\* The task is taken with interrupts disabled, and run with them enabled.
RunTask ==
  /\ at = "work" /\ Undisturbed
  /\ IF tasks > 0 THEN tasks' = tasks - 1 /\ UNCHANGED at ELSE at' = "idle" /\ UNCHANGED tasks
  /\ UNCHANGED <<loop, masked, raised, raises, refused>>

WorkInit ==
  /\ loop \in {"sleeping", "spinning"} /\ at = "idle" /\ masked = FALSE /\ raised = FALSE
  /\ tasks = 0 /\ raises = 0 /\ refused = FALSE

WorkNext == Raise \/ add \/ RunIdle \/ RunSpins \/ RunTask

-----------------------------------------------------------------------------
\* The loop never sleeps over a task: what is queued, and an interrupt that has
\* one to queue, is served without any other interrupt.
WorkIsDone == ~raised /\ tasks = 0
=============================================================================
