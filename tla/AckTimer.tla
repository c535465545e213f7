------------------------------- MODULE AckTimer -------------------------------
(***************************************************************************)
(* The acknowledgement timer in its stop-and-wait mode                      *)
(* (src/lib/timeout_cpp_impl.cc, and src/lib/timeout_impl.cc with           *)
(* _llc_protocol 0) as its users see it: a value, and what each handler and *)
(* each step of a countdown makes of it.  The countdowns of a block are     *)
(* interchangeable, since they share all its members: they are counted.     *)
(*                                                                          *)
(* There is no time: a countdown may be over at any moment.  A handler is   *)
(* one step.  This is exact until a start finds an earlier countdown alive, *)
(* for a countdown that publishes or clears the flag between two statements *)
(* of kill_timeout could as well have done so before or after it.  Beyond   *)
(* that, and with time, the timer is the subject of AckTimeout.             *)
(***************************************************************************)
EXTENDS Naturals

Timers(Infos) ==
    [set : BOOLEAN,         \* _in_timeout
     waiting : Infos,       \* _waiting_frame_info
     counting : Nat,        \* countdowns before their last test of the flag
     due : Nat,             \* ... that have found it set and are to publish
     ending : Nat]          \* ... that are to clear it and end

NoTimer(info) ==
    [set |-> FALSE, waiting |-> info, counting |-> 0, due |-> 0, ending |-> 0]

\* A countdown has not ended.
Alive(t) == t.counting + t.due + t.ending > 0

\* A countdown has looked at the flag for the last time.
Past(t) == t.due + t.ending > 0

\* start_timeout
Started(t, info) ==
    IF t.set
    THEN t
    ELSE [t EXCEPT !.set = TRUE, !.waiting = info, !.counting = @ + 1]

\* kill_timeout, with the acknowledgement that is waited for
Killed(t) == [t EXCEPT !.set = FALSE]

\* countdown_timeout: the test of the flag after the loop.
Decided(t) ==
    IF t.set
    THEN [t EXCEPT !.counting = @ - 1, !.due = @ + 1]
    ELSE [t EXCEPT !.counting = @ - 1, !.ending = @ + 1]

\* _waiting_frame_info has been published.
Told(t) == [t EXCEPT !.due = @ - 1, !.ending = @ + 1]

\* Mutant: the flag stays as it is.
KeepFlag(t) == t.set

FlagAtEnd(t) == FALSE

\* The last statement, whoever has set the flag.
Ended(t) == [t EXCEPT !.set = FlagAtEnd(t), !.ending = @ - 1]

Bit(b) == IF b THEN 1 ELSE 0

\* The verdicts this timer is still to give: one to come, and those that no
\* acknowledgement can stop any more.
Owed(t) == t.due + Bit(t.set /\ t.counting > 0)
=============================================================================
