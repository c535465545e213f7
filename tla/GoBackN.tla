------------------------------- MODULE GoBackN -------------------------------
(***************************************************************************)
(* Go-back-n as wired in examples/Single_Block_Testing/Test_slide_window.py: *)
(* the window of src/lib/slide_window_impl.cc, its timer (the go-back-n mode *)
(* of src/lib/timeout_impl.cc) and, on the other side of the radio, the      *)
(* index check of src/lib/frame_index_check_impl.cc that answers frames.     *)
(*                                                                          *)
(* Each block has a thread for its handlers and takes messages from its      *)
(* ports; every start of the timer adds a countdown thread.  A handler is    *)
(* one action unless it sleeps (transmit_window, between two frames) or      *)
(* shares members with a countdown (kill_timeout).  A frame is its index,    *)
(* which stays below its wrap.  The frame buffer is never empty when it is   *)
(* asked, so a request is as good as a frame on its way to the window.  Time *)
(* is left out: a countdown may run out whenever it looks at the clock.      *)
(*                                                                          *)
(* The blocks call front() and pop() on empty std::queues.  What follows is  *)
(* undefined; the model stops both blocks there and notes the place.         *)
(***************************************************************************)
EXTENDS Integers, Sequences

CONSTANTS
    WindowSize,     \* _window_size: 5 in the flow graph
    MaxFrames,      \* bound: frames that come to the window
    MaxTimeouts,    \* bound: countdowns that publish
    Countdowns,     \* bound: countdown threads alive at a time
    AirCap          \* bound: frames on the air in one direction; one more is lost

ASSUME WindowAssumption == WindowSize \in Nat \ {0}
ASSUME BoundAssumption ==
    MaxFrames \in Nat /\ MaxTimeouts \in Nat /\ Countdowns \in Nat /\ AirCap \in Nat

VARIABLES
    window,         \* slide_window: _window
    txedIndex,      \* slide_window: _txed_index
    walk,           \* slide_window: what transmit_window has still to look at
    from,           \* slide_window: the txed_index it was called with
    inTimeout,      \* timeout: _in_timeout
    waiting,        \* timeout: its own _window
    kill,           \* timeout: the acknowledgement kill_timeout is handling
    countdown,      \* timeout: the countdown threads
    flushLength,    \* timeout: flush_length of each
    frameA,         \* frame_index_check: _frame_A, 0 if it is no dict
    \* messages
    asked,          \* frames requested that slide_window has not taken
    verdicts,       \* at ack_info_in of slide_window
    starts,         \* at data_frame_info_in of timeout
    air,            \* data frames on the air
    acks,           \* acknowledgements on the air
    \* history, read by no action of the code but for the next index
    taken,          \* frames that came to slide_window
    refused,        \* frames the window had no room for
    sent,           \* frames transmitted at least once
    received,       \* frames that reached the other side
    removed,        \* frames popped from the window
    lossy,          \* whether a data frame has been lost
    timeouts,       \* countdowns that published
    undefined       \* where a block has used an empty queue

sender == <<window, txedIndex, walk, from>>
timer == <<inTimeout, waiting, kill, countdown, flushLength>>
queues == <<asked, verdicts, starts, air, acks>>
history == <<taken, refused, sent, received, removed, lossy, timeouts, undefined>>
vars == <<sender, timer, frameA, queues, history>>

Thread == 1 .. Countdowns
Index == 1 .. MaxFrames
Ack(i) == [type |-> "ack", index |-> i]
Timeout(i) == [type |-> "data", index |-> i]
NoKill == [index |-> 0, wait |-> 0]

Drop(q, k) == SubSeq(q, k + 1, Len(q))
Members(q) == {q[i] : i \in 1 .. Len(q)}

Init ==
    /\ window = <<>> /\ txedIndex = 0 /\ walk = <<>> /\ from = 0
    /\ inTimeout = FALSE /\ waiting = <<>> /\ kill = NoKill
    /\ countdown = [t \in Thread |-> "none"]
    /\ flushLength = [t \in Thread |-> 0]
    /\ frameA = 0
    /\ asked = 1        \* the buffer publishes its first frame unasked
    /\ verdicts = <<>> /\ starts = <<>> /\ air = <<>> /\ acks = <<>>
    /\ taken = 0
    /\ refused = {} /\ sent = {} /\ received = {} /\ removed = {}
    /\ lossy = FALSE
    /\ timeouts = 0
    /\ undefined = "no"

-----------------------------------------------------------------------------
(* The radio keeps order and loses frames. *)

OnAir(q, i) == IF Len(q) < AirCap THEN Append(q, i) ELSE q

LoseData ==
    /\ air # <<>>
    /\ air' = Tail(air)
    /\ lossy' = TRUE
    /\ UNCHANGED <<sender, timer, frameA, asked, verdicts, starts, acks, taken, refused,
                   sent, received, removed, timeouts, undefined>>

LoseAck ==
    /\ acks # <<>>
    /\ acks' = Tail(acks)
    /\ UNCHANGED <<sender, timer, frameA, asked, verdicts, starts, air, history>>

-----------------------------------------------------------------------------
(* slide_window *)

WindowIdle == walk = <<>> /\ undefined = "no"

\* Mutant: the first of them is left out.
DueLater(i, txed) == txed + 1 < i /\ i <= txed + WindowSize

Due(i, txed) == txed < i /\ i <= txed + WindowSize

\* transmit_window walks through the frames of window q.
Transmit(q, txed) == walk' = q /\ from' = txed

\* Mutant: the window takes one frame too many.
RoomForOneMore(q) == Len(q) <= WindowSize

Room(q) == Len(q) < WindowSize

FrameIn ==
    LET i == taken + 1
        q == Append(window, i)
    IN  /\ WindowIdle
        /\ asked > 0
        /\ taken < MaxFrames
        /\ taken' = i
        /\ IF Room(window)
           THEN /\ window' = q
                /\ IF Room(q) THEN UNCHANGED <<asked, walk, from>>
                              ELSE asked' = asked - 1 /\ Transmit(q, txedIndex)
                /\ UNCHANGED refused
           ELSE /\ refused' = refused \cup {i}
                /\ asked' = asked - 1
                /\ UNCHANGED <<window, walk, from>>
        /\ UNCHANGED <<txedIndex, timer, frameA, verdicts, starts, air, acks, sent, received,
                       removed, lossy, timeouts, undefined>>

\* The next frame of the walk goes to the radio and to the timer, if it lies in
\* the window beyond txed_index; it counts as transmitted in any case.
WalkOn ==
    LET i == Head(walk) IN
    /\ walk # <<>>
    /\ walk' = Tail(walk)
    /\ IF Due(i, from)
       THEN /\ air' = OnAir(air, i)
            /\ lossy' = (lossy \/ Len(air) >= AirCap)
            /\ starts' = Append(starts, i)
            /\ sent' = sent \cup {i}
       ELSE UNCHANGED <<air, lossy, starts, sent>>
    /\ txedIndex' = i
    /\ UNCHANGED <<window, from, timer, frameA, asked, verdicts, acks, taken,
                   refused, received, removed, timeouts, undefined>>

\* Mutant: one frame more is popped.
CountOneMore(i, wait) == i - wait + 2

\* How many frames acknowledgement i pops from a window whose front is wait.
Acked(i, wait) == IF i >= wait THEN i - wait + 1 ELSE 0

\* An index so much smaller that it is taken for one beyond the wrap.
Wrapped(i, wait) == i < wait - WindowSize

VerdictAck ==
    LET i == Head(verdicts).index
        wait == Head(window)
        k == Acked(i, wait)
    IN  /\ WindowIdle
        /\ verdicts # <<>> /\ Head(verdicts).type = "ack"
        /\ window # <<>>
        /\ verdicts' = Tail(verdicts)
        /\ IF i >= wait \/ Wrapped(i, wait)
           THEN /\ window' = Drop(window, k)
                /\ undefined' = IF k > Len(window) THEN "window" ELSE "no"
                /\ removed' = removed \cup (Members(window) \ Members(Drop(window, k)))
                /\ asked' = asked + 1
                /\ UNCHANGED <<walk, from>>
           ELSE /\ Transmit(window, txedIndex)
                /\ UNCHANGED <<window, undefined, removed, asked>>
        /\ UNCHANGED <<txedIndex, timer, frameA, starts, air, acks, taken, refused, sent, received,
                       lossy, timeouts>>

VerdictTimeout ==
    /\ WindowIdle
    /\ verdicts # <<>> /\ Head(verdicts).type = "data"
    /\ window # <<>>
    /\ verdicts' = Tail(verdicts)
    /\ txedIndex' = Head(window) - 1
    /\ Transmit(window, Head(window) - 1)
    /\ UNCHANGED <<window, timer, frameA, asked, starts, air, acks, history>>

\* The front of an empty window.
VerdictEmpty ==
    /\ WindowIdle
    /\ verdicts # <<>>
    /\ window = <<>>
    /\ undefined' = "front"
    /\ UNCHANGED <<sender, timer, frameA, queues, taken, refused, sent, received,
                   removed, lossy, timeouts>>

-----------------------------------------------------------------------------
(* timeout: the handlers *)

TimerIdle == kill = NoKill /\ undefined = "no"

Spawn == \E t \in Thread :
    countdown[t] = "none" /\ countdown' = [countdown EXCEPT ![t] = "loop"]

\* A start while the flag is set puts the deadline off; with time left out,
\* that changes nothing.
Start ==
    /\ TimerIdle
    /\ starts # <<>>
    /\ starts' = Tail(starts)
    /\ waiting' = Append(waiting, Head(starts))
    /\ IF inTimeout THEN UNCHANGED <<inTimeout, countdown>>
                    ELSE inTimeout' = TRUE /\ Spawn
    /\ UNCHANGED <<sender, kill, flushLength, frameA, asked, verdicts, air, acks, history>>

\* An acknowledgement of a frame in the window is passed on ...
Kill ==
    LET i == Head(acks) IN
    /\ TimerIdle
    /\ acks # <<>>
    /\ waiting # <<>>
    /\ acks' = Tail(acks)
    /\ IF inTimeout /\ i >= Head(waiting)
       THEN /\ verdicts' = Append(verdicts, Ack(i))
            /\ kill' = [index |-> i, wait |-> Head(waiting)]
       ELSE UNCHANGED <<verdicts, kill>>
    /\ UNCHANGED <<sender, inTimeout, waiting, countdown, flushLength, frameA, asked,
                   starts, air, history>>

\* ... clears the flag if it is of the last one, and removes what it
\* acknowledges from the timer's window, which a countdown may have flushed.
KillPop ==
    LET k == kill.index - kill.wait + 1 IN
    /\ kill # NoKill /\ undefined = "no"
    /\ inTimeout' = (inTimeout /\ Len(waiting) # k)
    /\ waiting' = Drop(waiting, k)
    /\ undefined' = IF k > Len(waiting) THEN "waiting" ELSE "no"
    /\ kill' = NoKill
    /\ UNCHANGED <<sender, countdown, flushLength, frameA, queues, taken, refused, sent,
                   received, removed, lossy, timeouts>>

\* The front of an empty queue is only used while the flag is set.
KillEmpty ==
    /\ TimerIdle
    /\ acks # <<>>
    /\ waiting = <<>>
    /\ IF inTimeout THEN undefined' = "waiting" /\ UNCHANGED acks
                    ELSE acks' = Tail(acks) /\ UNCHANGED undefined
    /\ UNCHANGED <<sender, timer, frameA, asked, verdicts, starts, air, taken, refused,
                   sent, received, removed, lossy, timeouts>>

-----------------------------------------------------------------------------
(* timeout: countdown thread t *)

At(t, pc) == countdown[t] = pc /\ undefined = "no"
Becomes(t, pc) == countdown' = [countdown EXCEPT ![t] = pc]

\* The time is over and the flag is still set.
Expire(t) ==
    /\ At(t, "loop")
    /\ inTimeout
    /\ Becomes(t, "publish")
    /\ UNCHANGED <<sender, inTimeout, waiting, kill, flushLength, frameA, queues, history>>

\* The flag ends the loop; it is read again behind it, and a start may have
\* set it in between.
Killed(t) ==
    /\ At(t, "loop")
    /\ ~inTimeout
    /\ Becomes(t, "killed")
    /\ UNCHANGED <<sender, inTimeout, waiting, kill, flushLength, frameA, queues, history>>

KilledTest(t) ==
    /\ At(t, "killed")
    /\ inTimeout
    /\ Becomes(t, "publish")
    /\ UNCHANGED <<sender, inTimeout, waiting, kill, flushLength, frameA, queues, history>>

Publish(t) ==
    /\ At(t, "publish")
    /\ timeouts < MaxTimeouts
    /\ timeouts' = timeouts + 1
    /\ IF waiting = <<>>
       THEN undefined' = "waiting" /\ UNCHANGED verdicts
       ELSE verdicts' = Append(verdicts, Timeout(Head(waiting))) /\ UNCHANGED undefined
    /\ Becomes(t, "flush")
    /\ UNCHANGED <<sender, inTimeout, waiting, kill, flushLength, frameA, asked, starts,
                   air, acks, taken, refused, sent, received, removed, lossy>>

\* flush_window looks how long the timer's window is ...
FlushSize(t) ==
    /\ At(t, "flush")
    /\ flushLength' = [flushLength EXCEPT ![t] = Len(waiting)]
    /\ Becomes(t, "pop")
    /\ UNCHANGED <<sender, inTimeout, waiting, kill, frameA, queues, history>>

\* ... and pops as many, whatever a handler or another countdown has pushed or
\* popped meanwhile.
FlushWindow(t) ==
    /\ At(t, "pop")
    /\ waiting' = Drop(waiting, flushLength[t])
    /\ undefined' = IF flushLength[t] > Len(waiting) THEN "waiting" ELSE "no"
    /\ flushLength' = [flushLength EXCEPT ![t] = 0]
    /\ Becomes(t, "clear")
    /\ UNCHANGED <<sender, inTimeout, kill, frameA, queues, taken, refused, sent,
                   received, removed, lossy, timeouts>>

\* Mutant: the flag is left to the handlers.
LeaveFlag == inTimeout

FlagAtEnd == FALSE

Clear(t) ==
    /\ (At(t, "killed") \/ At(t, "clear"))
    /\ inTimeout' = FlagAtEnd
    /\ Becomes(t, "none")
    /\ UNCHANGED <<sender, waiting, kill, flushLength, frameA, queues, history>>

Countdown(t) ==
    \/ Expire(t) \/ Killed(t) \/ KilledTest(t) \/ Publish(t) \/ FlushSize(t)
    \/ FlushWindow(t) \/ Clear(t)

-----------------------------------------------------------------------------
(* frame_index_check, and the framing block that turns a frame into its       *)
(* acknowledgement *)

\* Mutant: every frame is answered with the one that should come next.
AnswerNext(a, i) == i + 1

\* After frame a, frame i: in order it is acknowledged itself, otherwise a is.
\* The first frame begins anew.
Answer(a, i) == IF a = 0 \/ i = 1 \/ i = a + 1 THEN i ELSE a

Receive ==
    LET i == Head(air) IN
    /\ air # <<>>
    /\ air' = Tail(air)
    /\ received' = received \cup {i}
    /\ acks' = OnAir(acks, Answer(frameA, i))
    /\ frameA' = i
    /\ UNCHANGED <<sender, timer, asked, verdicts, starts, taken, refused, sent, removed,
                   lossy, timeouts, undefined>>

-----------------------------------------------------------------------------
Next ==
    \/ LoseData \/ LoseAck \/ Receive
    \/ FrameIn \/ WalkOn \/ VerdictAck \/ VerdictTimeout \/ VerdictEmpty
    \/ Start \/ Kill \/ KillPop \/ KillEmpty
    \/ \E t \in Thread : Countdown(t)

Spec == Init /\ [][Next]_vars

-----------------------------------------------------------------------------
(* Properties. *)

TypeOK ==
    /\ window \in Seq(Index) /\ Len(window) <= WindowSize
    /\ txedIndex \in 0 .. MaxFrames
    /\ walk \in Seq(Index) /\ Len(walk) <= WindowSize
    /\ from \in 0 .. MaxFrames
    /\ inTimeout \in BOOLEAN
    /\ waiting \in Seq(Index)
    /\ kill \in [index : 0 .. MaxFrames, wait : 0 .. MaxFrames]
    /\ countdown \in [Thread -> {"none", "loop", "killed", "publish", "flush", "pop",
                               "clear"}]
    /\ flushLength \in [Thread -> Nat]
    /\ frameA \in 0 .. MaxFrames
    /\ asked \in Nat
    /\ starts \in Seq(Index) /\ air \in Seq(Index) /\ acks \in Seq(Index)
    /\ verdicts \in Seq([type : {"ack", "data"}, index : Index])
    /\ taken \in 0 .. MaxFrames
    /\ refused \subseteq Index /\ sent \subseteq Index
    /\ received \subseteq Index /\ removed \subseteq Index
    /\ lossy \in BOOLEAN
    /\ timeouts \in 0 .. MaxTimeouts
    /\ undefined \in {"no", "window", "front", "waiting"}

\* A frame leaves the window only after it has reached the other side, if none
\* was lost or refused, however often the window is retransmitted and however
\* late its acknowledgements are.  (After a gap the index check acknowledges
\* the frames behind it, and the missing one is given up.)
AckedWasReceived == ~lossy /\ refused = {} => removed \subseteq received

\* An acknowledgement never pops more than the window holds, although the
\* number to pop is computed from the indices and not from the window: only a
\* refused frame makes the two differ.
PopsFit == undefined = "window" => refused # {}

\* No frame leaves the window without having been transmitted, whether or not
\* the timer sends the walk back, if none was refused.  (A frame behind a gap of
\* refused ones may lie beyond the reach of the walk that counts it.)
NothingSkipped == refused = {} => removed \subseteq sent

\* While the flag is set a countdown is alive that will clear it.
TimerAlive == inTimeout => \E t \in Thread : countdown[t] # "none"

\* "if the whole logic is correct, the else case will never happen": a frame
\* never comes while the window is full.
AlwaysRoom == refused = {}
=============================================================================
