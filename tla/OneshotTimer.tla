----------------------------- MODULE OneshotTimer -----------------------------
(***************************************************************************)
(* The general timer (src/lib/general_timer_impl.cc) in its one-shot mode:  *)
(* a trigger starts a countdown in a detached thread, and a trigger during  *)
(* the countdown puts its deadline off.  Handler and thread share           *)
(* _in_active, _start_time and _frame_info without a lock.                  *)
(*                                                                          *)
(* Each action says what becomes of the block's own state; the messages it  *)
(* takes and publishes belong to the module that composes the blocks.       *)
(* Clearing _in_active and publishing are one step: what the handler does   *)
(* between them does not touch what is published.                           *)
(***************************************************************************)
EXTENDS Naturals

CONSTANT Duration    \* _duration_ms, in ticks

ASSUME TimerAssumption == Duration \in Nat /\ Duration >= 1

VARIABLES
    inActive,    \* _in_active
    timer,       \* where the countdown thread is
    age          \* time since _start_time while counting, at most Duration

timerVars == <<inActive, timer, age>>

TimerInit ==
    /\ inActive = FALSE
    /\ timer = "none"
    /\ age = 0

\* Mutant: a trigger during the countdown leaves the deadline where it is.
KeepDeadline == age

PutOff == 0

\* start_timer
StartTimer ==
    IF inActive
    THEN age' = PutOff /\ UNCHANGED <<inActive, timer>>
    ELSE inActive' = TRUE /\ timer' = "new" /\ UNCHANGED age

\* countdown_oneshot_timer takes the time.
TimerBegins ==
    /\ timer = "new"
    /\ timer' = "loop"
    /\ age' = 0
    /\ UNCHANGED inActive

\* The time is up.
TimerRunsOut ==
    /\ timer = "loop"
    /\ age >= Duration
    /\ timer' = "fire"
    /\ UNCHANGED <<inActive, age>>

\* Mutant: the timer stays active.
StillActive == inActive

Inactive == FALSE

\* The expiry is published.
TimerExpires ==
    /\ timer = "fire"
    /\ inActive' = Inactive
    /\ timer' = "none"
    /\ UNCHANGED age

Older(t) == IF t < Duration THEN t + 1 ELSE t

Counting == timer = "loop" /\ age < Duration

TimerTick ==
    /\ age' = IF Counting THEN Older(age) ELSE age
    /\ UNCHANGED <<inActive, timer>>
=============================================================================
