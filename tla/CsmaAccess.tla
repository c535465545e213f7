------------------------------ MODULE CsmaAccess ------------------------------
(***************************************************************************)
(* Channel access of one 802.11 station                                     *)
(* (examples/Tests/csma_80211_I.py): a frame from the buffer goes to        *)
(* carrier sensing and to a timer that stops the sensing.  A frame that     *)
(* passes is sent and acknowledged or times out; one that fails or times    *)
(* out backs off and is tried again, up to a limit; one that is             *)
(* acknowledged or given up makes the station, after another backoff, ask   *)
(* the buffer for the next.                                                 *)
(*                                                                          *)
(* The blocks are those of CarrierSensing, OneshotTimer, Backoff and        *)
(* AckTimer.  Each input port has its own queue, and a block may serve its  *)
(* ports in any order.  The frame buffer gives a frame for each request     *)
(* once it has one (FrameBuffer, BufferService).                            *)
(***************************************************************************)
EXTENDS CarrierSensing, OneshotTimer, Backoff, AckTimer, Sequences

CONSTANTS
    MaxFrames,     \* bound: frames of the application
    MaxResend,     \* _max_resend of resend_check
    Crossing       \* bound: the frames whose acknowledgement may come after the
                   \* last test of their countdown

ASSUME BoundsAssumption ==
    MaxFrames \in Nat /\ MaxResend \in Nat \ {0}
ASSUME BackoffsAssumption == Backoffs = {"retry", "next"}

VARIABLES
    requests,    \* dequeue messages on their way, and the first-element flag
    frames,      \* frames the buffer has handed out
    queue,       \* the messages waiting at each port
    stops,       \* messages waiting at the port stop_in
    ackTimer,    \* the timeout block
    \* history, read by no action of the code
    since,       \* time since the last frame was handed over
    resolved,    \* frames that were acknowledged or given up
    raced,       \* a timer ran out beside a frame it was not started for
    refused,     \* triggers that the backoff blocks have refused
    cut,         \* sensing was stopped before its time, for no known reason
    hurried,     \* a start has come while an earlier countdown was alive
    crossed      \* acknowledgements taken after the last test of a countdown

marks == <<hurried, crossed>>
races == <<raced, refused, cut, marks>>
vars == <<sensingVars, timerVars, backoffVars, requests, frames, queue, stops,
          ackTimer, since, resolved, races>>

Frame == [index : 1 .. MaxFrames, n : 1 .. MaxResend]

\* command and timer trigger; frame_buffer_1 and sending; start of the timeout
\* block; the two backoff blocks; resend_check
Port == {"cmd", "start", "send", "info", "retry", "next", "resend"}

Init ==
    /\ SensingInit
    /\ TimerInit
    /\ BackoffInit
    /\ requests = 1
    /\ frames = 0
    /\ queue = [p \in Port |-> <<>>]
    /\ stops = 0
    /\ ackTimer = NoTimer(<<>>)
    /\ since = 0
    /\ resolved = {}
    /\ raced = FALSE
    /\ refused = 0
    /\ cut = FALSE
    /\ hurried = FALSE
    /\ crossed = 0

-----------------------------------------------------------------------------
(* Messages. *)

Waiting(p) == queue[p] # <<>>

Taken(q, p) == [q EXCEPT ![p] = Tail(@)]

Put(q, p, f) == [q EXCEPT ![p] = Append(@, f)]

\* frame_path_1_0 gives the frame to carrier sensing and to the timer.
HandOver(q, f) ==
    /\ queue' = Put(Put(q, "cmd", f), "start", f)
    /\ since' = 0
    /\ raced' = (raced \/ timer = "fire" \/ stops > 0)

\* frame_buffer_0 publishes its next frame.
NextElement ==
    /\ requests > 0
    /\ frames < MaxFrames
    /\ requests' = requests - 1
    /\ frames' = frames + 1
    /\ HandOver(queue, [index |-> frames + 1, n |-> 1])
    /\ UNCHANGED <<sensingVars, timerVars, backoffVars, stops, ackTimer,
                   resolved, refused, cut, marks>>

-----------------------------------------------------------------------------
(* Carrier sensing and its timer. *)

\* The right to the channel was never doubled.
Single == ~hurried /\ crossed = 0

PowerIn ==
    /\ Power(~cca)
    /\ UNCHANGED <<timerVars, backoffVars, requests, frames, queue, stops,
                   ackTimer, since, resolved, races>>

CommandIn ==
    /\ Waiting("cmd")
    /\ StartSensing(Head(queue["cmd"]))
    /\ queue' = Taken(queue, "cmd")
    /\ UNCHANGED <<timerVars, backoffVars, requests, frames, stops, ackTimer,
                   since, resolved, races>>

StopIn ==
    /\ stops > 0
    /\ StopSensing
    /\ stops' = stops - 1
    /\ UNCHANGED <<timerVars, backoffVars, requests, frames, queue, ackTimer,
                   since, resolved, races>>

SensingLoopEnds ==
    /\ SensorLoop
    /\ cut' = (cut \/ (~raced /\ Single /\ cca /\ since < Duration))
    /\ UNCHANGED <<timerVars, backoffVars, requests, frames, queue, stops,
                   ackTimer, since, resolved, raced, refused, marks>>

AfterSensing(pass) == IF pass THEN "send" ELSE "retry"

SensingEnds ==
    /\ \E pass \in BOOLEAN :
          /\ SensorDecide(pass)
          /\ queue' = Put(queue, AfterSensing(pass), cmd)
    /\ UNCHANGED <<timerVars, backoffVars, requests, frames, stops, ackTimer,
                   since, resolved, races>>

TimerTriggered ==
    /\ Waiting("start")
    /\ StartTimer
    /\ queue' = Taken(queue, "start")
    /\ UNCHANGED <<sensingVars, backoffVars, requests, frames, stops, ackTimer,
                   since, resolved, races>>

TimerThread ==
    /\ \/ TimerBegins /\ UNCHANGED <<stops, raced>>
       \/ /\ TimerRunsOut
          /\ raced' = (raced \/ Waiting("cmd") \/ Waiting("start"))
          /\ UNCHANGED stops
       \/ /\ TimerExpires
          /\ stops' = stops + 1
          /\ UNCHANGED raced
    /\ UNCHANGED <<sensingVars, backoffVars, requests, frames, queue, ackTimer,
                   since, resolved, refused, cut, marks>>

Tick ==
    /\ Counting \/ since < Duration
    /\ TimerTick
    /\ since' = Older(since)
    /\ UNCHANGED <<sensingVars, backoffVars, requests, frames, queue, stops,
                   ackTimer, resolved, races>>

-----------------------------------------------------------------------------
(* Transmission and the timeout block. *)

\* frame_buffer_1 and the transmission: the frame is on the air, and its info
\* comes to the timeout block.
Transmit ==
    /\ Waiting("send")
    /\ queue' = Put(Taken(queue, "send"), "info", Head(queue["send"]))
    /\ UNCHANGED <<sensingVars, timerVars, backoffVars, requests, frames,
                   stops, ackTimer, since, resolved, races>>

\* start_timeout
InfoIn ==
    /\ Waiting("info")
    /\ ackTimer' = Started(ackTimer, Head(queue["info"]))
    /\ hurried' = (hurried \/ Alive(ackTimer))
    /\ queue' = Taken(queue, "info")
    /\ UNCHANGED <<sensingVars, timerVars, backoffVars, requests, frames,
                   stops, since, resolved, raced, refused, cut, crossed>>

\* kill_timeout, with the acknowledgement that is waited for; any other changes
\* nothing.
AckIn ==
    /\ ackTimer.set
    /\ Past(ackTimer) => ackTimer.waiting.index \in Crossing
    /\ ackTimer' = Killed(ackTimer)
    /\ queue' = Put(queue, "next", ackTimer.waiting)
    /\ resolved' = resolved \union {ackTimer.waiting.index}
    /\ crossed' = crossed + Bit(Past(ackTimer))
    /\ UNCHANGED <<sensingVars, timerVars, backoffVars, requests, frames,
                   stops, since, raced, refused, cut, hurried>>

\* countdown_timeout has left its loop and looks at the flag.
AckTimerDecides ==
    /\ ackTimer.counting > 0
    /\ ackTimer' = Decided(ackTimer)
    /\ UNCHANGED <<sensingVars, timerVars, backoffVars, requests, frames, queue,
                   stops, since, resolved, races>>

\* The waiting frame has timed out.
AckTimerPublishes ==
    /\ ackTimer.due > 0
    /\ ackTimer' = Told(ackTimer)
    /\ queue' = Put(queue, "retry", ackTimer.waiting)
    /\ UNCHANGED <<sensingVars, timerVars, backoffVars, requests, frames,
                   stops, since, resolved, races>>

AckTimerEnds ==
    /\ ackTimer.ending > 0
    /\ ackTimer' = Ended(ackTimer)
    /\ UNCHANGED <<sensingVars, timerVars, backoffVars, requests, frames, queue,
                   stops, since, resolved, races>>

-----------------------------------------------------------------------------
(* Backoff and retransmission. *)

BackoffIn(b) ==
    /\ Waiting(b)
    /\ queue' = Taken(queue, b)
    /\ \/ Trigger(b, Head(queue[b])) /\ UNCHANGED refused
       \/ TriggerRefused(b) /\ refused' = refused + 1
    /\ UNCHANGED <<sensingVars, timerVars, requests, frames, stops, ackTimer,
                   since, resolved, raced, cut, marks>>

BackoffThread(b) ==
    /\ BackoffBegins(b) \/ BackoffEnds(b)
    /\ UNCHANGED <<sensingVars, timerVars, requests, frames, queue, stops,
                   ackTimer, since, resolved, races>>

\* backoff_0 publishes to resend_check.
RetryDue ==
    /\ BackoffPublishes("retry")
    /\ queue' = Put(queue, "resend", backoffInfo["retry"])
    /\ UNCHANGED <<sensingVars, timerVars, requests, frames, stops, ackTimer,
                   since, resolved, races>>

\* backoff_1 publishes to the dequeue port of the buffer.
NextDue ==
    /\ BackoffPublishes("next")
    /\ requests' = requests + 1
    /\ UNCHANGED <<sensingVars, timerVars, frames, queue, stops, ackTimer,
                   since, resolved, races>>

\* Mutant: one retransmission too many.
PassedLimit(f) == f.n > MaxResend

AtLimit(f) == f.n >= MaxResend

Resend ==
    /\ Waiting("resend")
    /\ LET f == Head(queue["resend"]) IN
          /\ ~AtLimit(f)
          /\ HandOver(Taken(queue, "resend"), [f EXCEPT !.n = @ + 1])
    /\ UNCHANGED <<sensingVars, timerVars, backoffVars, requests, frames,
                   stops, ackTimer, resolved, refused, cut, marks>>

GiveUp ==
    /\ Waiting("resend")
    /\ LET f == Head(queue["resend"]) IN
          /\ AtLimit(f)
          /\ resolved' = resolved \union {f.index}
    /\ queue' = Taken(queue, "resend")
    /\ requests' = requests + 1
    /\ UNCHANGED <<sensingVars, timerVars, backoffVars, frames, stops, ackTimer,
                   since, races>>

-----------------------------------------------------------------------------
Sensing == CommandIn \/ StopIn \/ SensingLoopEnds \/ SensingEnds

Timer == TimerTriggered \/ TimerThread

AckTimer == InfoIn \/ AckTimerDecides \/ AckTimerPublishes \/ AckTimerEnds

BackingOff ==
    \/ \E b \in Backoffs : BackoffIn(b) \/ BackoffThread(b)
    \/ RetryDue \/ NextDue \/ Resend \/ GiveUp

\* What the blocks do of themselves.
Works == NextElement \/ Sensing \/ Timer \/ Tick \/ Transmit \/ AckTimer
            \/ BackingOff

Acts == PowerIn \/ AckIn \/ Works

\* A station that was hurried is not followed any further: its handlers and
\* countdowns then overlap in more ways than AckTimer tells apart.
Next == ~hurried /\ Acts

Spec == Init /\ [][Next]_vars

\* Handlers and threads are scheduled and time passes; the buffer always has
\* another frame.  It does not matter which step goes first, since they all
\* come to an end.
FairSpec == Spec /\ WF_vars(~hurried /\ Works)

-----------------------------------------------------------------------------
(* Properties. *)

MaybeFrame == Frame \union {<<>>}

TypeOK ==
    /\ cca \in BOOLEAN
    /\ stopSensing \in BOOLEAN
    /\ cmd \in MaybeFrame
    /\ sensor \in [loop : Nat, decide : Nat]
    /\ inActive \in BOOLEAN
    /\ timer \in {"none", "new", "loop", "fire"}
    /\ age \in 0 .. Duration
    /\ inBackoff \in [Backoffs -> BOOLEAN]
    /\ backoff \in [Backoffs -> [new : Nat, wait : Nat, clear : Nat]]
    /\ backoffInfo \in [Backoffs -> MaybeFrame]
    /\ requests \in Nat
    /\ frames \in 0 .. MaxFrames
    /\ queue \in [Port -> Seq(Frame)]
    /\ stops \in Nat
    /\ ackTimer \in Timers(MaybeFrame)
    /\ since \in 0 .. Duration
    /\ resolved \subseteq 1 .. MaxFrames
    /\ raced \in BOOLEAN
    /\ refused \in Nat
    /\ cut \in BOOLEAN
    /\ hurried \in BOOLEAN
    /\ crossed \in Nat

\* Frames waiting at the ports, the timer's aside.
Load(q) ==
    Len(q["cmd"]) + Len(q["send"]) + Len(q["info"])
        + Len(q["retry"]) + Len(q["next"]) + Len(q["resend"])

\* Threads of a backoff block that are still to publish.
Backing(t) == t.new + t.wait

\* Threads that hold a frame.
InHand ==
    sensor.loop + sensor.decide
        + Backing(backoff["retry"]) + Backing(backoff["next"])

\* The station's right to the channel: as a request, as a frame at a port, with
\* the timeout block or in a thread.
Rights == requests + Load(queue) + Owed(ackTimer) + InHand

\* The right to the channel is conserved: only an acknowledgement that crosses
\* with the timeout of its transmission adds one, only a backoff block that
\* refuses a trigger takes one away.  A station that was hurried is left out:
\* its countdowns take each other's flag.
OneRight == ~hurried => Rights + refused = 1 + crossed

\* While no acknowledgement has crossed: a command never finds the sensing
\* thread of another one, and a trigger that is accepted no backoff thread.
\* _cmd and _frame_info are not overwritten under a thread that is still to
\* publish them.
OneAtATime ==
    Single =>
        /\ Waiting("cmd") => sensor.loop + sensor.decide = 0
        /\ \A b \in Backoffs : Waiting(b) /\ ~inBackoff[b] =>
              Backing(backoff[b]) + backoff[b].clear = 0

\* Sensing that nobody has stopped yet has a timer that will stop it: it does
\* not last for as long as the channel is free.  Only a timer that runs out
\* beside a frame it was not started for can leave sensing alone.
SensingWatched ==
    ~raced /\ sensor.loop > 0 /\ ~stopSensing =>
        Waiting("start") \/ timer # "none" \/ stops > 0

\* Sensing on a free channel lasts at least for the time of the timer, unless a
\* timer ran out beside a frame it was not started for or the right was doubled.
SensedLongEnough == ~cut

\* Every frame that was handed out is acknowledged or given up, unless a race,
\* a refused trigger or two verdicts on one transmission disturb the station.
EveryFrameResolved ==
    \A i \in 1 .. MaxFrames :
        frames = i ~> raced \/ refused > 0 \/ ~Single \/ i \in resolved
=============================================================================
