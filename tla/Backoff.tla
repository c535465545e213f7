------------------------------- MODULE Backoff -------------------------------
(***************************************************************************)
(* The backoff block (src/lib/backoff_impl.cc), without a reservation: a    *)
(* trigger starts a detached thread that sleeps and publishes the frame of  *)
(* the trigger.  The thread sets _in_backoff when it first runs and clears  *)
(* it after it has published; the handler refuses a trigger while the flag  *)
(* is set.  A flow graph has several of these blocks.                       *)
(*                                                                          *)
(* Each action says what becomes of the state of block b; the messages it   *)
(* takes and publishes belong to the module that composes the blocks.       *)
(* Threads are interchangeable, since they share all members of their       *)
(* block: they are counted.                                                 *)
(***************************************************************************)
EXTENDS Naturals

CONSTANT Backoffs     \* the backoff blocks of the flow graph

VARIABLES
    inBackoff,     \* _in_backoff of each block
    backoff,       \* threads of each block: new, asleep, after publishing
    backoffInfo    \* _frame_info of each block, <<>> before the first trigger

backoffVars == <<inBackoff, backoff, backoffInfo>>

BackoffInit ==
    /\ inBackoff = [b \in Backoffs |-> FALSE]
    /\ backoff = [b \in Backoffs |-> [new |-> 0, wait |-> 0, clear |-> 0]]
    /\ backoffInfo = [b \in Backoffs |-> <<>>]

\* start_backoff: accepted
Trigger(b, f) ==
    /\ ~inBackoff[b]
    /\ backoffInfo' = [backoffInfo EXCEPT ![b] = f]
    /\ backoff' = [backoff EXCEPT ![b].new = @ + 1]
    /\ UNCHANGED inBackoff

\* start_backoff: "backoff timer cannot be triggered twice"
TriggerRefused(b) ==
    /\ inBackoff[b]
    /\ UNCHANGED backoffVars

\* countdown_exp_backoff_cs, countdown_random_backoff: the thread runs
BackoffBegins(b) ==
    /\ backoff[b].new > 0
    /\ inBackoff' = [inBackoff EXCEPT ![b] = TRUE]
    /\ backoff' = [backoff EXCEPT ![b].new = @ - 1, ![b].wait = @ + 1]
    /\ UNCHANGED backoffInfo

\* Mutant: the thread goes on sleeping and publishing.
SleepAgain(t) == t

Published(t) == [t EXCEPT !.wait = @ - 1, !.clear = @ + 1]

\* It has slept and publishes.
BackoffPublishes(b) ==
    /\ backoff[b].wait > 0
    /\ backoff' = [backoff EXCEPT ![b] = Published(@)]
    /\ UNCHANGED <<inBackoff, backoffInfo>>

BackoffEnds(b) ==
    /\ backoff[b].clear > 0
    /\ inBackoff' = [inBackoff EXCEPT ![b] = FALSE]
    /\ backoff' = [backoff EXCEPT ![b].clear = @ - 1]
    /\ UNCHANGED backoffInfo
=============================================================================
