--------------------------- MODULE AckTimeoutProofs ---------------------------
(***************************************************************************)
(* What holds of the acknowledgement timer for every number of attempts and *)
(* every duration: the types, NoOrphanTimer and one acknowledgement for     *)
(* each attempt, for every sender; and the promises of the timer (never     *)
(* refused, never early, the right frame, one timeout, none after an        *)
(* acknowledgement) for a sender that waits until the last countdown has    *)
(* ended.                                                                   *)
(***************************************************************************)
EXTENDS AckTimeout, TLAPS

USE DEF Attempt, Alive, starts

-----------------------------------------------------------------------------
(* Types. *)

\* Counting up one entry of a family of counters leaves counters.
LEMMA CountUp ==
    ASSUME NEW f \in [Attempt -> Nat], NEW k
    PROVE  [f EXCEPT ![k] = @ + 1] \in [Attempt -> Nat]
<1>1. CASE k \in Attempt
  BY <1>1
<1>2. CASE k \notin Attempt
  <2>1. \A j \in Attempt : [f EXCEPT ![k] = @ + 1][j] = f[j]
    BY <1>2
  <2> QED
    BY <2>1
<1> QED
  BY <1>1, <1>2

\* Every variable keeps its type in a step of the handlers.
LEMMA HandlerType == TypeOK /\ Handler => TypeOK'
<1> SUFFICES ASSUME TypeOK, Handler PROVE TypeOK'
  OBVIOUS
<1> USE AttemptsAssumption, DurationAssumption, VariantAssumption DEF TypeOK
<1>1. CASE Start
  <2>1. /\ attempt' = attempt + 1 /\ attempt + 1 \in 1 .. MaxAttempts
        /\ pending' = TRUE
        /\ pc' \in {"idle", "flag"}
        /\ refused' = refused \/ refused' = refused \union {attempt + 1}
        /\ hurried' \in BOOLEAN
        /\ UNCHANGED <<inTimeout, waiting, age, countdown, frame, serving, served,
                       since, verdicts>>
    BY <1>1 DEF Start
  <2>2. attempt' \in 0 .. MaxAttempts /\ serving' \in 0 .. attempt'
    BY <2>1
  <2>3. refused' \subseteq Attempt
    BY <2>1
  <2> QED
    BY <2>1, <2>2, <2>3 DEF verdicts
<1>2. CASE StartFlag
  BY <1>2 DEF StartFlag, sender, verdicts
<1>3. CASE StartWaiting
  BY <1>3 DEF StartWaiting, Remembered, sender, verdicts
<1>4. CASE StartSpawn
  BY <1>4 DEF StartSpawn, sender, verdicts
<1>5. CASE \E i \in 1 .. frame : Kill(i)
  BY <1>5 DEF Kill, sender, verdicts
<1>6. CASE KillClear
  <2>1. acked' \in [Attempt -> Nat]
    BY <1>6, CountUp DEF KillClear
  <2>2. frame' \in Nat /\ frame' >= frame /\ waiting' = waiting
    BY <1>6 DEF KillClear
  <2>3. waiting' \in 0 .. frame'
    BY <2>2
  <2> QED
    BY <1>6, <2>1, <2>2, <2>3 DEF KillClear, Stopped
<1> QED
  BY <1>1, <1>2, <1>3, <1>4, <1>5, <1>6 DEF Handler

\* Every variable keeps its type in a step of a countdown.
LEMMA ThreadType ==
    ASSUME NEW k \in Attempt, TypeOK, Thread(k)
    PROVE  TypeOK'
<1> USE AttemptsAssumption, DurationAssumption, VariantAssumption DEF TypeOK
<1>1. CASE ThreadStart(k)
  BY <1>1 DEF ThreadStart, FromNow, sender, verdicts
<1>2. CASE ThreadLoop(k)
  BY <1>2 DEF ThreadLoop, sender, verdicts
<1>3. CASE ThreadTest(k)
  BY <1>3 DEF ThreadTest, AfterLoop, sender, verdicts
<1>4. CASE ThreadPublish(k)
  <2>1. expired' \in [Attempt -> Nat]
    BY <1>4, CountUp DEF ThreadPublish
  <2>2. early' \in BOOLEAN /\ stray' \in BOOLEAN
    BY <1>4 DEF ThreadPublish
  <2>3. countdown' \in [Attempt -> Alive \union {"none", "done"}]
    BY <1>4 DEF ThreadPublish, AfterPublish
  <2> QED
    BY <1>4, <2>1, <2>2, <2>3 DEF ThreadPublish
<1>5. CASE ThreadClear(k)
  BY <1>5 DEF ThreadClear, Ended, sender, verdicts
<1> QED
  BY <1>1, <1>2, <1>3, <1>4, <1>5 DEF Thread

\* Every variable keeps its type when time passes.
LEMMA TickType == TypeOK /\ Tick => TypeOK'
BY DurationAssumption DEF TypeOK, Tick, Older, sender, verdicts

\* A step of the whole system, or none, keeps the types.
LEMMA StepType == TypeOK /\ [Next]_vars => TypeOK'
<1>1. TypeOK /\ UNCHANGED vars => TypeOK'
  BY DEF TypeOK, vars, sender, verdicts
<1> QED
  BY <1>1, HandlerType, ThreadType, TickType DEF Next

\* The initial state is well typed.
LEMMA InitType == Init => TypeOK
<1> SUFFICES ASSUME Init PROVE TypeOK
  OBVIOUS
<1> USE AttemptsAssumption, DurationAssumption DEF Init
<1>1. /\ age \in [Attempt -> 0 .. Duration]
      /\ countdown \in [Attempt -> Alive \union {"none", "done"}]
      /\ acked \in [Attempt -> Nat]
      /\ expired \in [Attempt -> Nat]
  OBVIOUS
<1>2. attempt \in 0 .. MaxAttempts /\ serving \in 0 .. attempt /\ since \in 0 .. Duration
  OBVIOUS
<1>3. frame \in Nat /\ waiting \in 0 .. frame
  OBVIOUS
<1> QED
  BY <1>1, <1>2, <1>3 DEF TypeOK

\* Every reachable state of the timer is well typed.
THEOREM TimerTypeCorrect == Spec => []TypeOK
<1> QED
  BY InitType, StepType, PTL DEF Spec

-----------------------------------------------------------------------------
(* The flag of timeout_impl.cc:226 always has somebody to clear it. *)

\* A start being handled belongs to an attempt, so it spawns a countdown.
StartHasAttempt ==
    /\ pc = "flag" => attempt >= 1
    /\ pc \in {"waiting", "spawn"} => serving >= 1

OrphanInv == TypeOK /\ NoOrphanTimer /\ StartHasAttempt

\* A handler that sets _in_timeout goes on to spawn a countdown.
LEMMA HandlerOrphan == OrphanInv /\ Handler => NoOrphanTimer' /\ StartHasAttempt'
<1> SUFFICES ASSUME OrphanInv, Handler PROVE NoOrphanTimer' /\ StartHasAttempt'
  OBVIOUS
<1> USE AttemptsAssumption DEF OrphanInv, NoOrphanTimer, StartHasAttempt
<1>1. CASE Start
  BY <1>1 DEF Start, TypeOK
<1>2. CASE StartFlag
  BY <1>2 DEF StartFlag, TypeOK
<1>3. CASE StartWaiting
  BY <1>3 DEF StartWaiting
<1>4. CASE StartSpawn
  <2>1. serving \in Attempt /\ pc' = "idle"
    BY <1>4 DEF StartSpawn, TypeOK
  <2>2. countdown'[serving] = "new"
    BY <1>4, <2>1 DEF StartSpawn, TypeOK
  <2> QED
    BY <2>1, <2>2
<1>5. CASE \E i \in 1 .. frame : Kill(i)
  BY <1>5 DEF Kill
<1>6. CASE KillClear
  BY <1>6 DEF KillClear, Stopped
<1> QED
  BY <1>1, <1>2, <1>3, <1>4, <1>5, <1>6 DEF Handler

\* A countdown that ends clears _in_timeout.
LEMMA ThreadOrphan ==
    ASSUME NEW k \in Attempt, OrphanInv, Thread(k)
    PROVE  NoOrphanTimer' /\ StartHasAttempt'
<1> USE DEF OrphanInv, NoOrphanTimer, StartHasAttempt
<1>1. CASE ThreadStart(k) \/ ThreadLoop(k) \/ ThreadTest(k) \/ ThreadPublish(k)
  <2>1. UNCHANGED <<inTimeout, pc, attempt, serving>>
    BY <1>1 DEF ThreadStart, ThreadLoop, ThreadTest, ThreadPublish, sender
  <2>2. countdown'[k] \in Alive
    BY <1>1 DEF ThreadStart, ThreadLoop, ThreadTest, ThreadPublish, AfterLoop,
                AfterPublish, TypeOK
  <2> QED
    BY <2>1, <2>2
<1>2. CASE ThreadClear(k)
  BY <1>2 DEF ThreadClear, Ended, sender
<1> QED
  BY <1>1, <1>2 DEF Thread

\* The invariant of TimerNeverOrphaned is inductive.
LEMMA StepOrphan == OrphanInv /\ [Next]_vars => OrphanInv'
<1> SUFFICES ASSUME OrphanInv, [Next]_vars PROVE NoOrphanTimer' /\ StartHasAttempt'
  BY StepType DEF OrphanInv
<1>1. CASE UNCHANGED vars \/ Tick
  BY <1>1 DEF OrphanInv, NoOrphanTimer, StartHasAttempt, vars, sender, Tick
<1> QED
  BY <1>1, HandlerOrphan, ThreadOrphan DEF Next

\* The timer never stays set with nobody to end it, for any sender.
THEOREM TimerNeverOrphaned == Spec => []NoOrphanTimer
<1>1. Init => OrphanInv
  BY InitType DEF Init, OrphanInv, NoOrphanTimer, StartHasAttempt
<1>2. OrphanInv => NoOrphanTimer
  BY DEF OrphanInv
<1> QED
  BY <1>1, <1>2, StepOrphan, PTL DEF Spec

-----------------------------------------------------------------------------
(* The promises to a sender that waits for the last countdown to end. *)

\* The only countdown that may run is that of the attempt being served, and
\* none runs while a start is handled.
OneAlive ==
    /\ \A k \in Attempt : countdown[k] \in Alive => k = serving
    /\ pc \in {"flag", "waiting", "spawn"} =>
            \A k \in Attempt : countdown[k] \notin Alive

\* Attempts that were not served yet have no countdown and no verdict.
Fresh ==
    /\ pc = "flag" => serving < attempt
    /\ \A k \in Attempt : k > serving => countdown[k] = "none" /\ expired[k] = 0
    /\ pc \in {"waiting", "spawn"} /\ serving \in Attempt => expired[serving] = 0

\* The countdown of k has not published, and its clock is not ahead of the
\* attempt's; once it is past the loop either the time is up or the flag is
\* down.
InTime(k) ==
    /\ countdown[k] \in {"new", "loop", "test", "publish"} => expired[k] = 0
    /\ countdown[k] = "loop" => age[k] <= since
    /\ countdown[k] = "test" /\ inTimeout => since = Duration
    /\ countdown[k] = "publish" => since = Duration
    /\ countdown[k] \in Alive => waiting = served

\* The frame is stored before the countdown is spawned.
FrameStored ==
    /\ pc = "waiting" => served = frame
    /\ pc = "spawn" => waiting = served

PacedPromise ==
    /\ refused = {} /\ ~early /\ ~stray
    /\ \A k \in Attempt : expired[k] <= 1

PacedParts == OneAlive /\ Fresh /\ (\A k \in Attempt : InTime(k)) /\ FrameStored
              /\ PacedPromise

PacedInv == OrphanInv /\ (~hurried => PacedParts)

\* With a paced sender a handler finds no older countdown to disturb.
LEMMA HandlerPaced ==
    ASSUME OrphanInv, PacedParts, Handler, ~hurried'
    PROVE  PacedParts'
<1> USE AttemptsAssumption, DurationAssumption
    DEF PacedParts, OneAlive, Fresh, InTime, FrameStored, PacedPromise
<1>0. TypeOK
  BY DEF OrphanInv
<1>1. CASE Start
  <2>1. pc = "idle" /\ \A k \in Attempt : countdown[k] \notin Alive
    BY <1>0, <1>1 DEF Start, TypeOK
  <2>2. ~inTimeout
    BY <2>1 DEF OrphanInv, NoOrphanTimer
  <2> QED
    BY <1>0, <1>1, <2>1, <2>2 DEF Start, TypeOK, verdicts
<1>2. CASE StartFlag
  BY <1>0, <1>2 DEF StartFlag, TypeOK, sender, verdicts
<1>3. CASE StartWaiting
  BY <1>0, <1>3 DEF StartWaiting, Remembered, TypeOK, sender, verdicts
<1>4. CASE StartSpawn
  <2>1. serving \in Attempt /\ pc = "spawn" /\ pc' = "idle" /\ waiting = served
    BY <1>0, <1>4 DEF StartSpawn, TypeOK, StartHasAttempt, OrphanInv
  <2>2. /\ countdown'[serving] = "new"
        /\ \A k \in Attempt : k # serving => countdown'[k] = countdown[k]
        /\ UNCHANGED <<inTimeout, waiting, age, sender, serving, served, since,
                       verdicts, starts>>
    BY <1>0, <1>4, <2>1 DEF StartSpawn, TypeOK
  <2>3. OneAlive'
    BY <2>1, <2>2
  <2>4. Fresh'
    BY <1>0, <2>1, <2>2 DEF sender, verdicts, TypeOK
  <2>5. ASSUME NEW k \in Attempt PROVE InTime(k)'
    BY <2>1, <2>2 DEF verdicts
  <2> QED
    BY <2>1, <2>2, <2>3, <2>4, <2>5 DEF verdicts
<1>5. CASE \E i \in 1 .. frame : Kill(i)
  BY <1>0, <1>5 DEF Kill, TypeOK, sender, verdicts
<1>6. CASE KillClear
  BY <1>0, <1>6 DEF KillClear, Stopped, TypeOK
<1> QED
  BY <1>1, <1>2, <1>3, <1>4, <1>5, <1>6 DEF Handler

\* A countdown that is alone publishes once, in time, for its own frame.
LEMMA ThreadPaced ==
    ASSUME NEW k \in Attempt, OrphanInv, PacedParts, Thread(k)
    PROVE  PacedParts'
<1> USE AttemptsAssumption, DurationAssumption
    DEF PacedParts, OneAlive, Fresh, InTime, FrameStored, PacedPromise
<1>0. TypeOK /\ countdown[k] \in Alive /\ k = serving
  BY DEF OrphanInv, Thread, ThreadStart, ThreadLoop, ThreadTest, ThreadPublish,
         ThreadClear
<1>1. CASE ThreadStart(k)
  BY <1>0, <1>1 DEF ThreadStart, FromNow, TypeOK, sender, verdicts
<1>2. CASE ThreadLoop(k)
  BY <1>0, <1>2 DEF ThreadLoop, TypeOK, sender, verdicts
<1>3. CASE ThreadTest(k)
  BY <1>0, <1>3 DEF ThreadTest, AfterLoop, TypeOK, sender, verdicts
<1>4. CASE ThreadPublish(k)
  BY <1>0, <1>4 DEF ThreadPublish, AfterPublish, TypeOK
<1>5. CASE ThreadClear(k)
  BY <1>0, <1>5 DEF ThreadClear, Ended, TypeOK, sender, verdicts
<1> QED
  BY <1>1, <1>2, <1>3, <1>4, <1>5 DEF Thread

\* Time passes for the timer and for its only countdown alike.
LEMMA TickPaced == OrphanInv /\ PacedParts /\ Tick => PacedParts'
BY DurationAssumption
DEF PacedParts, OrphanInv, TypeOK, Tick, Older, OneAlive, Fresh, InTime,
    FrameStored, PacedPromise, sender, verdicts

\* A transmission that began in a hurry is never undone.
LEMMA HurryStays == [Next]_vars /\ ~hurried' /\ TypeOK => ~hurried
BY DEF Next, Handler, Start, StartFlag, StartWaiting, StartSpawn, Kill, KillClear,
       Thread, ThreadStart, ThreadLoop, ThreadTest, ThreadPublish, ThreadClear,
       Tick, vars, TypeOK

\* The invariant of PacedTimer is inductive.
LEMMA StepPaced == PacedInv /\ [Next]_vars => PacedInv'
<1> SUFFICES ASSUME PacedInv, [Next]_vars PROVE PacedInv'
  OBVIOUS
<1>1. OrphanInv /\ OrphanInv'
  BY StepOrphan DEF PacedInv
<1>2. ASSUME ~hurried' PROVE PacedParts'
  <2>1. PacedParts
    BY <1>1, <1>2, HurryStays DEF PacedInv, OrphanInv
  <2>2. CASE UNCHANGED vars
    BY <2>1, <2>2 DEF PacedParts, OneAlive, Fresh, InTime, FrameStored,
        PacedPromise, vars, sender, verdicts
  <2> QED
    BY <1>1, <1>2, <2>1, <2>2, HandlerPaced, ThreadPaced, TickPaced DEF Next
<1> QED
  BY <1>1, <1>2 DEF PacedInv

\* It holds initially.
LEMMA InitPaced == Init => PacedInv
BY InitType
DEF Init, PacedInv, PacedParts, OrphanInv, NoOrphanTimer, StartHasAttempt,
    OneAlive, Fresh, InTime, FrameStored, PacedPromise

\* A sender that waits for the last countdown to end is never refused a timer,
\* and its timeouts are in time, single and for the right frame.
THEOREM PacedTimer ==
    Spec => []PatientSender
<1>1. PacedInv => PatientSender
  BY DEF PacedInv, PacedParts, PacedPromise, PatientSender, NotEarly
<1> QED
  BY <1>1, InitPaced, StepPaced, PTL DEF Spec

-----------------------------------------------------------------------------
(* Acknowledgements, for every sender. *)

\* An attempt that a timer runs for, or a start is handled for, has not been
\* acknowledged, and no later attempt has.
AckInv ==
    /\ AckedOnce
    /\ \A k \in Attempt : k > serving => acked[k] = 0
    /\ pc = "flag" => serving < attempt
    /\ inTimeout \/ pc = "kill" => \A k \in Attempt : k = serving => acked[k] = 0

\* The flag is set only for an attempt that is newer than all acknowledged ones,
\* and cleared with the acknowledgement.
LEMMA HandlerAcked == TypeOK /\ AckInv /\ Handler => AckInv'
<1> SUFFICES ASSUME TypeOK, AckInv, Handler PROVE AckInv'
  OBVIOUS
<1> USE AttemptsAssumption DEF AckInv, AckedOnce, TypeOK
<1>1. CASE Start
  BY <1>1 DEF Start, verdicts
<1>2. CASE StartFlag
  BY <1>2 DEF StartFlag, sender, verdicts
<1>3. CASE StartWaiting \/ StartSpawn \/ \E i \in 1 .. frame : Kill(i)
  <2>1. /\ UNCHANGED <<inTimeout, serving, attempt, acked>>
        /\ pc' # "flag" /\ (pc' = "kill" => inTimeout)
    BY <1>3 DEF StartWaiting, StartSpawn, Kill, sender, verdicts
  <2> QED BY <2>1
<1>4. CASE KillClear
  <2>1. /\ inTimeout' = FALSE /\ pc' = "idle" /\ serving' = serving
        /\ acked' = [acked EXCEPT ![serving] = @ + 1]
    BY <1>4 DEF KillClear, Stopped
  <2>2. \A k \in Attempt : k = serving => acked[k] = 0
    BY <1>4 DEF KillClear
  <2>3. ASSUME NEW k \in Attempt PROVE acked'[k] = IF k = serving THEN 1 ELSE acked[k]
    BY <2>1, <2>2
  <2> QED BY <2>1, <2>3
<1> QED BY <1>1, <1>2, <1>3, <1>4 DEF Handler

\* Countdowns and the clock publish no acknowledgement, and only clear the flag.
LEMMA OthersAcked ==
    ASSUME TypeOK, AckInv, (\E k \in Attempt : Thread(k)) \/ Tick \/ UNCHANGED vars
    PROVE  AckInv'
<1>1. /\ UNCHANGED <<acked, serving, attempt, pc>>
      /\ inTimeout' => inTimeout
  BY DEF Thread, ThreadStart, ThreadLoop, ThreadTest, ThreadPublish, ThreadClear,
         Ended, Tick, vars, sender, verdicts
<1> QED BY <1>1 DEF AckInv, AckedOnce

\* The invariant of AcknowledgedOnce is inductive.
LEMMA StepAcked == TypeOK /\ AckInv /\ [Next]_vars => AckInv'
BY HandlerAcked, OthersAcked DEF Next

\* It holds initially.
LEMMA InitAcked == Init => AckInv
BY DEF Init, AckInv, AckedOnce

\* Whatever the sender and the countdowns do, no attempt is acknowledged twice.
THEOREM AcknowledgedOnce == Spec => []AckedOnce
<1>1. AckInv => AckedOnce
  BY DEF AckInv
<1> QED BY <1>1, InitType, StepType, InitAcked, StepAcked, PTL DEF Spec

-----------------------------------------------------------------------------
(* An acknowledgement ends its countdown. *)

\* The acknowledged attempt k has not timed out and never will: its countdown
\* has ended or finds the flag down, and no other one is started beside it.
Settled(k) ==
    /\ expired[k] = 0 /\ k <= serving
    /\ countdown[k] \in Alive => ~inTimeout /\ countdown[k] # "publish"
    /\ pc \in {"waiting", "spawn"} => k < serving

\* In an attempt that is settled no step of a paced sender's timer publishes a
\* timeout.
LEMMA StepSettled ==
    ASSUME NEW k \in Attempt, PacedInv, ~hurried, Settled(k), [Next]_vars, ~hurried'
    PROVE  Settled(k)'
<1>1. TypeOK /\ OneAlive /\ Fresh
  BY DEF PacedInv, PacedParts, OrphanInv
<1> USE AttemptsAssumption DEF Settled, TypeOK
<1>2. CASE Start
  <2>1. /\ countdown[k] \notin Alive /\ UNCHANGED <<countdown, expired, serving>>
        /\ pc' \in {"idle", "flag"}
    BY <1>1, <1>2 DEF Start, verdicts
  <2> QED BY <2>1
<1>3. CASE StartFlag \/ StartWaiting
  <2>1. countdown[k] \notin Alive /\ UNCHANGED <<countdown, expired>>
    BY <1>1, <1>3 DEF StartFlag, StartWaiting, sender, verdicts, OneAlive, Fresh
  <2>2. k < serving' /\ k <= serving'
    BY <1>1, <1>3 DEF StartFlag, StartWaiting, Fresh
  <2> QED BY <2>1, <2>2
<1>4. CASE StartSpawn
  <2>1. countdown[k] \notin Alive /\ serving' = serving /\ expired' = expired
    BY <1>1, <1>4 DEF StartSpawn, verdicts, OneAlive
  <2>2. k # serving /\ countdown'[k] = countdown[k] /\ pc' = "idle"
    BY <1>1, <1>4 DEF StartSpawn
  <2> QED BY <2>1, <2>2
<1>5. CASE (\E i \in 1 .. frame : Kill(i)) \/ KillClear
  <2>1. /\ UNCHANGED <<countdown, expired, serving>>
        /\ pc' \in {"idle", "kill"}
        /\ inTimeout' => inTimeout
    BY <1>5 DEF Kill, KillClear, Stopped, sender, verdicts
  <2> QED BY <2>1
<1>6. ASSUME NEW j \in Attempt, Thread(j) PROVE Settled(k)'
  <2>1. j = serving
    BY <1>1, <1>6 DEF OneAlive, Thread, ThreadStart, ThreadLoop, ThreadTest,
                      ThreadPublish, ThreadClear
  <2>2. CASE ThreadStart(j) \/ ThreadLoop(j) \/ ThreadTest(j) \/ ThreadClear(j)
    <3>1. /\ UNCHANGED <<pc, serving, expired>> /\ (inTimeout' => inTimeout)
          /\ \/ countdown' = [countdown EXCEPT ![j] = "loop"]
             \/ countdown' = [countdown EXCEPT ![j] = "test"]
             \/ countdown' = [countdown EXCEPT ![j] = "clear"]
             \/ countdown' = [countdown EXCEPT ![j] = "done"]
             \/ countdown' = [countdown EXCEPT ![j] = "publish"] /\ inTimeout
          /\ countdown[j] \in Alive
      BY <2>2 DEF ThreadStart, ThreadLoop, ThreadTest, ThreadClear, AfterLoop,
                  Ended, sender, verdicts
    <3>2. CASE j = k
      BY <1>1, <3>1, <3>2
    <3>3. CASE j # k
      <4>1. countdown'[k] = countdown[k]
        BY <1>1, <3>1, <3>3
      <4> QED BY <3>1, <4>1
    <3> QED BY <3>2, <3>3
  <2>3. CASE ThreadPublish(j)
    BY <1>1, <2>1, <2>3 DEF ThreadPublish
  <2> QED BY <1>6, <2>2, <2>3 DEF Thread
<1>7. CASE Tick \/ UNCHANGED vars
  <2>1. UNCHANGED <<countdown, expired, serving, inTimeout, pc>>
    BY <1>7 DEF Tick, vars, sender, verdicts
  <2> QED BY <2>1
<1> QED BY <1>2, <1>3, <1>4, <1>5, <1>6, <1>7 DEF Next, Handler

\* At an acknowledgement that comes in time the attempt is settled.
LEMMA AckSettles ==
    ASSUME NEW k \in Attempt, PacedInv, AckInv, ~hurried, AckedInTime(k)
    PROVE  Settled(k)
<1>1. TypeOK /\ OneAlive /\ InTime(k)
  BY DEF PacedInv, PacedParts, OrphanInv
<1>2. k = serving /\ ~inTimeout
  BY <1>1 DEF OneAlive, AckInv, TypeOK, AckedInTime
<1> QED BY <1>1, <1>2 DEF Settled, OneAlive, InTime, AckedInTime

\* An acknowledgement published before the countdown of its attempt looks at
\* the flag for the last time prevents that attempt's timeout for good, unless
\* the sender starts another transmission before the countdown has ended.
THEOREM AckIsFinal == Spec => AckStopsCountdown
<1> DEFINE Final(k) == hurried \/ Settled(k)
<1>1. ASSUME NEW k \in Attempt
      PROVE  Spec => [](AckedInTime(k) => []NoTimeout(k))
  <2>1. PacedInv /\ AckInv /\ AckedInTime(k) => Final(k)
    BY AckSettles
  <2>2. PacedInv /\ Final(k) /\ [Next]_vars => Final(k)'
    <3>1. PacedInv /\ [Next]_vars /\ hurried => hurried'
      BY HurryStays DEF PacedInv, OrphanInv
    <3> QED BY <3>1, StepSettled
  <2>3. Final(k) => NoTimeout(k)
    BY DEF Settled, NoTimeout
  <2>4. Spec => [](PacedInv /\ AckInv)
    <3>1. PacedInv => TypeOK
      BY DEF PacedInv, OrphanInv
    <3> QED BY <3>1, InitPaced, StepPaced, InitAcked, StepAcked, PTL DEF Spec
  <2> QED BY <2>1, <2>2, <2>3, <2>4, PTL DEF Spec
<1> QED BY <1>1 DEF AckStopsCountdown
=============================================================================
