------------------------------ MODULE AckTimeout ------------------------------
(***************************************************************************)
(* The acknowledgement timer: src/lib/timeout_impl.cc in stop-and-wait mode *)
(* and src/lib/timeout_cpp_impl.cc.  The message handlers of a block run    *)
(* one at a time in the block's own thread; every accepted start spawns a   *)
(* detached countdown thread, and handler and countdowns share _in_timeout, *)
(* _waiting_frame_info and (in timeout_impl.cc) _start_time without a lock. *)
(* Each access to a shared member that another thread can tell apart is a   *)
(* step of its own.                                                         *)
(*                                                                          *)
(* The sender asks for a timer once per transmission, and not again before  *)
(* it has a verdict: an acknowledgement moves it to the next frame, a       *)
(* timeout makes it transmit the same frame again.  Transmissions are       *)
(* numbered; they are called attempts.                                      *)
(***************************************************************************)
EXTENDS Integers

CONSTANTS
    MaxAttempts,   \* bound: transmissions of the sender
    Duration,      \* _timeout_duration_ms, in ticks
    SharedStart    \* _start_time is a member (timeout_impl.cc) or a local
                   \* variable of the thread (timeout_cpp_impl.cc)

ASSUME AttemptsAssumption == MaxAttempts \in Nat
ASSUME DurationAssumption == Duration \in Nat /\ Duration >= 1
ASSUME VariantAssumption == SharedStart \in BOOLEAN

VARIABLES
    inTimeout,   \* _in_timeout
    waiting,     \* _waiting_frame_info: the frame index in it, 0 before
    age,         \* time since each countdown's start time, at most Duration
    pc,          \* where the message handler is
    countdown,   \* where the countdown thread of each attempt is
    frame,       \* the sender: index of the frame it is sending
    attempt,     \* the sender: transmissions so far
    pending,     \* the sender: waits for the verdict on the last one
    \* history, read by no action of the code
    serving,     \* the attempt the timer was last set for
    served,      \* the index of its frame
    since,       \* time since then, at most Duration
    acked,       \* acknowledgements published for each attempt
    expired,     \* timeouts published for each attempt
    early,       \* a timeout was published before its attempt's time was up
    stray,       \* a timeout was published with another frame than its attempt's
    refused,     \* attempts for which no timer was started
    hurried      \* a transmission began before the last countdown had ended

sender == <<frame, attempt, pending>>
verdicts == <<acked, expired, early, stray>>
starts == <<refused, hurried>>
vars == <<inTimeout, waiting, age, pc, countdown, sender, serving, served,
          since, verdicts, starts>>

Attempt == 1 .. MaxAttempts
Alive == {"new", "loop", "test", "publish", "clear"}

Init ==
    /\ inTimeout = FALSE
    /\ waiting = 0
    /\ age = [k \in Attempt |-> 0]
    /\ pc = "idle"
    /\ countdown = [k \in Attempt |-> "none"]
    /\ frame = 1
    /\ attempt = 0
    /\ pending = FALSE
    /\ serving = 0
    /\ served = 0
    /\ since = 0
    /\ acked = [k \in Attempt |-> 0]
    /\ expired = [k \in Attempt |-> 0]
    /\ early = FALSE
    /\ stray = FALSE
    /\ refused = {}
    /\ hurried = FALSE

-----------------------------------------------------------------------------
(* start_timeout, in the block's thread. *)

\* The sender transmits, and the handler looks at _in_timeout.
Start ==
    /\ pc = "idle"
    /\ ~pending
    /\ attempt < MaxAttempts
    /\ hurried' = (hurried \/ \E k \in Attempt : countdown[k] \in Alive)
    /\ attempt' = attempt + 1
    /\ pending' = TRUE
    /\ \/ /\ ~inTimeout
          /\ pc' = "flag"
          /\ UNCHANGED refused
       \/ /\ inTimeout
          /\ refused' = refused \union {attempt + 1}
          /\ UNCHANGED pc
    /\ UNCHANGED <<inTimeout, waiting, age, countdown, frame, serving, served,
                   since, verdicts>>

\* _in_timeout = true
StartFlag ==
    /\ pc = "flag"
    /\ inTimeout' = TRUE
    /\ pc' = "waiting"
    /\ serving' = attempt
    /\ served' = frame
    /\ since' = 0
    /\ UNCHANGED <<waiting, age, countdown, sender, verdicts, starts>>

\* Mutant: only the first frame is remembered.
FirstFrame == IF waiting = 0 THEN frame ELSE waiting

\* Mutant: the index is counted up before it is stored.
NextFrame == frame + 1

\* _waiting_frame_info = data_frame_info
Remembered == frame

StartWaiting ==
    /\ pc = "waiting"
    /\ waiting' = Remembered
    /\ pc' = "spawn"
    /\ UNCHANGED <<inTimeout, age, countdown, sender, serving, served, since,
                   verdicts, starts>>

StartSpawn ==
    /\ pc = "spawn"
    /\ countdown' = [countdown EXCEPT ![serving] = "new"]
    /\ pc' = "idle"
    /\ UNCHANGED <<inTimeout, waiting, age, sender, serving, served, since,
                   verdicts, starts>>

-----------------------------------------------------------------------------
(* kill_timeout, in the block's thread. *)

\* An acknowledgement of a transmitted frame, when a timer runs and the frame
\* is the waiting one.  Any other acknowledgement changes nothing.
Kill(i) ==
    /\ pc = "idle"
    /\ inTimeout
    /\ i = waiting
    /\ pc' = "kill"
    /\ UNCHANGED <<inTimeout, waiting, age, countdown, sender, serving, served,
                   since, verdicts, starts>>

\* Mutant: the acknowledgement is published and the timer left running.
LeaveRunning == inTimeout

Stopped == FALSE

\* The flag is cleared and the acknowledgement published: the sender goes on.
KillClear ==
    /\ pc = "kill"
    /\ inTimeout' = Stopped
    /\ acked' = [acked EXCEPT ![serving] = @ + 1]
    /\ pc' = "idle"
    /\ frame' = IF pending THEN frame + 1 ELSE frame
    /\ pending' = FALSE
    /\ UNCHANGED <<waiting, age, countdown, attempt, serving, served, since,
                   expired, early, stray, starts>>

-----------------------------------------------------------------------------
(* countdown_timeout, in the detached thread of attempt k. *)

\* Mutant: the time is counted from the start of the first countdown.
KeepStartTime(k) == age

\* The start time is now: for this countdown, or for all of them.
FromNow(k) == [j \in Attempt |-> IF SharedStart \/ j = k THEN 0 ELSE age[j]]

ThreadStart(k) ==
    /\ countdown[k] = "new"
    /\ age' = FromNow(k)
    /\ countdown' = [countdown EXCEPT ![k] = "loop"]
    /\ UNCHANGED <<inTimeout, waiting, pc, sender, serving, served, since,
                   verdicts, starts>>

\* The loop ends when the time is up or the flag is down; until then the
\* thread sleeps and looks again.
ThreadLoop(k) ==
    /\ countdown[k] = "loop"
    /\ age[k] >= Duration \/ ~inTimeout
    /\ countdown' = [countdown EXCEPT ![k] = "test"]
    /\ UNCHANGED <<inTimeout, waiting, age, pc, sender, serving, served, since,
                   verdicts, starts>>

\* Mutant: the flag is not looked at again after the loop.
Unconditional == "publish"

AfterLoop == IF inTimeout THEN "publish" ELSE "clear"

ThreadTest(k) ==
    /\ countdown[k] = "test"
    /\ countdown' = [countdown EXCEPT ![k] = AfterLoop]
    /\ UNCHANGED <<inTimeout, waiting, age, pc, sender, serving, served, since,
                   verdicts, starts>>

\* Mutant: the countdown goes on after a timeout.
CountAgain == "loop"

AfterPublish == "clear"

\* The waiting frame is published: the sender transmits it again.
ThreadPublish(k) ==
    /\ countdown[k] = "publish"
    /\ expired' = [expired EXCEPT ![serving] = @ + 1]
    /\ early' = (early \/ since < Duration)
    /\ stray' = (stray \/ waiting # served)
    /\ pending' = FALSE
    /\ countdown' = [countdown EXCEPT ![k] = AfterPublish]
    /\ UNCHANGED <<inTimeout, waiting, age, pc, frame, attempt, serving, served,
                   since, acked, starts>>

\* Mutant: only an acknowledgement clears the flag.
KeepFlag == inTimeout

Ended == FALSE

ThreadClear(k) ==
    /\ countdown[k] = "clear"
    /\ inTimeout' = Ended
    /\ countdown' = [countdown EXCEPT ![k] = "done"]
    /\ UNCHANGED <<waiting, age, pc, sender, serving, served, since, verdicts,
                   starts>>

Thread(k) ==
    \/ ThreadStart(k) \/ ThreadLoop(k) \/ ThreadTest(k)
    \/ ThreadPublish(k) \/ ThreadClear(k)

-----------------------------------------------------------------------------
Older(t) == IF t < Duration THEN t + 1 ELSE t

\* The clock of the machine; it runs on whatever the threads do.
Tick ==
    /\ since < Duration \/ \E k \in Attempt : age[k] < Duration
    /\ age' = [k \in Attempt |-> Older(age[k])]
    /\ since' = Older(since)
    /\ UNCHANGED <<inTimeout, waiting, pc, countdown, sender, serving, served,
                   verdicts, starts>>

Handler ==
    \/ Start \/ StartFlag \/ StartWaiting \/ StartSpawn
    \/ (\E i \in 1 .. frame : Kill(i))
    \/ KillClear

Next == Handler \/ (\E k \in Attempt : Thread(k)) \/ Tick

Spec == Init /\ [][Next]_vars

\* Threads and handlers that have begun are scheduled, and time passes.
\* Nothing is assumed of acknowledgements, and the sender may stop.
FairSpec ==
    /\ Spec
    /\ WF_vars(StartFlag) /\ WF_vars(StartWaiting) /\ WF_vars(StartSpawn)
    /\ WF_vars(KillClear) /\ WF_vars(Tick)
    /\ \A k \in Attempt : WF_vars(Thread(k))

-----------------------------------------------------------------------------
(* Properties. *)

TypeOK ==
    /\ inTimeout \in BOOLEAN
    /\ waiting \in 0 .. frame
    /\ age \in [Attempt -> 0 .. Duration]
    /\ pc \in {"idle", "flag", "waiting", "spawn", "kill"}
    /\ countdown \in [Attempt -> Alive \union {"none", "done"}]
    /\ frame \in Nat
    /\ attempt \in 0 .. MaxAttempts
    /\ pending \in BOOLEAN
    /\ serving \in 0 .. attempt
    /\ served \in Nat
    /\ since \in 0 .. Duration
    /\ acked \in [Attempt -> Nat]
    /\ expired \in [Attempt -> Nat]
    /\ early \in BOOLEAN
    /\ stray \in BOOLEAN
    /\ refused \subseteq Attempt
    /\ hurried \in BOOLEAN

\* While _in_timeout is set somebody is left to clear it: a countdown thread
\* that has not ended, or a handler on its way to spawn one.  Otherwise the
\* block would refuse every start from then on.
NoOrphanTimer ==
    inTimeout => \/ pc \in {"waiting", "spawn"}
                 \/ \E k \in Attempt : countdown[k] \in Alive

\* An attempt is reported acknowledged once at most, however many copies of the
\* acknowledgement arrive and whatever the countdowns do meanwhile.
AckedOnce == \A k \in Attempt : acked[k] <= 1

\* "timeout timer is expired ... timeout duration is": a timeout is published
\* only when the time of its attempt is up.
NotEarly == ~early

\* A sender that lets each countdown end before it transmits again is never
\* refused a timer, no timeout of its attempts comes early or twice, and the
\* frame published with it is the one the timer was set for.
PatientSender ==
    ~hurried => /\ refused = {}
                /\ NotEarly
                /\ \A k \in Attempt : expired[k] <= 1
                /\ ~stray

AckedInTime(k) == acked[k] > 0 /\ countdown[k] \in {"new", "loop", "test"}

NoTimeout(k) == hurried \/ expired[k] = 0

\* An acknowledgement published before the countdown looks at the flag for the
\* last time does prevent the timeout, for good, unless the sender hurries.
AckStopsCountdown ==
    \A k \in Attempt : [](AckedInTime(k) => []NoTimeout(k))

\* A sender that does not hurry gets a verdict on every transmission.
VerdictComes ==
    \A k \in Attempt : attempt = k ~> hurried \/ acked[k] + expired[k] > 0
=============================================================================
