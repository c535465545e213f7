------------------------------- MODULE AlohaMac -------------------------------
(***************************************************************************)
(* The MAC layer of the flow graph examples/mac_protocols/aloha.py, one     *)
(* instance per node: the blocks idle (src/lib/idle_impl.cc), timeout_cpp   *)
(* and exponential_backoff_cpp, joined by message queues, over a radio that *)
(* loses frames and keeps their order.                                      *)
(*                                                                          *)
(* A data frame is the number of its payload.  The block idle counts frame  *)
(* indices in an int; the header carries _len_frame_index bytes of it.      *)
(*                                                                          *)
(* The timeout block tests its flag, publishes and clears the flag in three *)
(* steps (AckTimer).  The history variables hurried and crossed record the  *)
(* two things these steps allow: a start beside an old countdown, and two   *)
(* verdicts on one transmission.                                            *)
(***************************************************************************)
EXTENDS AckTimer, Integers, Sequences

CONSTANTS
    Node,             \* the two stations
    IndexMod,         \* values of the index in the header: 256 in aloha.py
    MaxTransmissions, \* _max_num_retransmission
    MaxBuffer,        \* _max_buffer_size
    MaxFrames,        \* bound: payloads of an application
    Offers,           \* bound: payloads of the application of each station
    MaxCrossed,       \* bound: acknowledgements that cross
    AirCap            \* bound: frames on the air towards one station

ASSUME StationAssumption == \E a, b \in Node : a # b /\ Node = {a, b}
ASSUME OffersAssumption == Offers \in [Node -> 0 .. MaxFrames]
ASSUME IndexAssumption == IndexMod \in Nat /\ IndexMod >= 1
ASSUME LimitAssumption == MaxTransmissions \in Nat /\ MaxTransmissions >= 1
ASSUME BufferAssumption == MaxBuffer \in Nat /\ MaxBuffer >= 1
ASSUME BoundsAssumption == MaxFrames \in Nat /\ MaxCrossed \in Nat /\ AirCap \in Nat

VARIABLES
    inIdle,     \* idle: _in_idle
    txBuff,     \* idle: _tx_buff, the numbers of the frames
    sending,    \* idle: _sending_data_frame, its number and num_transmission
    inbox,      \* idle: acknowledgements and retries queued at data_in
    txInfo,     \* timeout_cpp: transmitted frames queued at data_frame_info_in
    ackTimer,   \* timeout_cpp: its members and countdowns
    backoffIn,  \* exponential_backoff_cpp: timeouts queued at its input
    backoffs,   \* exponential_backoff_cpp: threads that sleep
    backoffInfo,\* exponential_backoff_cpp: _frame_info
    air,        \* air[n]: frames on the air towards n
    \* history, read by no action of the code
    offered,    \* payloads of the application that were not refused
    sent,       \* sent[n][i]: transmissions of data frame i
    received,   \* data frames that reached n
    succeeded,  \* data frames successful_transmission was published for
    doubled,    \* ... twice
    abandoned,  \* data frames given up after MaxTransmissions
    hurried,    \* a start has come while an earlier countdown was alive
    crossed,    \* acknowledgements taken after the last test of a countdown
    stolen,     \* data has come while the station was idle
    missed      \* an acknowledgement of the waiting frame was not recognised

idleVars == <<inIdle, txBuff, sending, inbox>>
timeoutVars == <<txInfo, ackTimer>>
backoffVars == <<backoffIn, backoffs, backoffInfo>>
outcome == <<succeeded, doubled, abandoned>>
marks == <<hurried, crossed, stolen, missed>>
vars == <<idleVars, timeoutVars, backoffVars, air, offered, sent, received,
          outcome, marks>>

Peer(n) == CHOOSE m \in Node : m # n

Payload == 1 .. MaxFrames
Info == [frame : 0 .. MaxFrames, num : 0 .. MaxTransmissions]
NoInfo == [frame |-> 0, num |-> 0]
DataOnAir(i) == [type |-> "data", index |-> i % IndexMod, frame |-> i]

\* The acknowledgement carries the index found in the header.
AckOnAir(f) == [type |-> "ack", index |-> f.index, frame |-> f.frame]

Init ==
    /\ inIdle = [n \in Node |-> TRUE]
    /\ txBuff = [n \in Node |-> <<>>]
    /\ sending = [n \in Node |-> NoInfo]
    /\ inbox = [n \in Node |-> <<>>]
    /\ txInfo = [n \in Node |-> <<>>]
    /\ ackTimer = [n \in Node |-> NoTimer(NoInfo)]
    /\ backoffIn = [n \in Node |-> <<>>]
    /\ backoffs = [n \in Node |-> 0]
    /\ backoffInfo = [n \in Node |-> NoInfo]
    /\ air = [n \in Node |-> <<>>]
    /\ offered = [n \in Node |-> 0]
    /\ sent = [n \in Node |-> [i \in Payload |-> 0]]
    /\ received = [n \in Node |-> {}]
    /\ succeeded = [n \in Node |-> {}]
    /\ doubled = [n \in Node |-> FALSE]
    /\ abandoned = [n \in Node |-> {}]
    /\ hurried = [n \in Node |-> FALSE]
    /\ crossed = [n \in Node |-> 0]
    /\ stolen = [n \in Node |-> FALSE]
    /\ missed = FALSE

OnAir(l, f) == IF Len(l) < AirCap THEN Append(l, f) ELSE l

-----------------------------------------------------------------------------
(* idle *)

\* The frame info goes to send_frame: the frame is transmitted, and the info
\* of the transmitted frame comes to the timeout block.
DataOut(n, info) ==
    /\ sending' = [sending EXCEPT ![n] = info]
    /\ air' = [air EXCEPT ![Peer(n)] = OnAir(@, DataOnAir(info.frame))]
    /\ txInfo' = [txInfo EXCEPT ![n] = Append(@, info)]
    /\ sent' = [sent EXCEPT ![n][info.frame] = @ + 1]

\* send_data_frame_to_send_frame, with the buffer q.
SendNext(n, q) ==
    /\ DataOut(n, [frame |-> Head(q), num |-> 1])
    /\ txBuff' = [txBuff EXCEPT ![n] = Tail(q)]
    /\ inIdle' = [inIdle EXCEPT ![n] = FALSE]

\* Mutant: the buffer is not looked at.
StayIdle(n) ==
    /\ inIdle' = [inIdle EXCEPT ![n] = TRUE]
    /\ UNCHANGED <<txBuff, sending, air, txInfo, sent>>

\* _in_idle = true, and the next frame if there is one.
BecomeIdle(n) ==
    IF txBuff[n] # <<>>
    THEN SendNext(n, txBuff[n])
    ELSE /\ inIdle' = [inIdle EXCEPT ![n] = TRUE]
         /\ UNCHANGED <<txBuff, sending, air, txInfo, sent>>

\* Mutant: the state is not looked at.
AlwaysSend(n) == TRUE

MaySend(n) == inIdle[n]

\* state_transition with a payload of the application.
AppPayload(n) ==
    LET q == Append(txBuff[n], offered[n] + 1) IN
    /\ offered[n] < Offers[n]
    /\ Len(txBuff[n]) < MaxBuffer
    /\ offered' = [offered EXCEPT ![n] = @ + 1]
    /\ IF MaySend(n)
       THEN SendNext(n, q)
       ELSE /\ txBuff' = [txBuff EXCEPT ![n] = q]
            /\ UNCHANGED <<inIdle, sending, air, txInfo, sent>>
    /\ UNCHANGED <<inbox, ackTimer, backoffVars, received, outcome, marks>>

\* Mutant: one transmission more.
LimitPassed(info) == info.num > MaxTransmissions

LimitReached(info) == info.num >= MaxTransmissions

\* The info of a frame of mine that timed out: once more, or give up.
IdleRetry(n) ==
    LET info == Head(inbox[n]).info IN
    /\ inbox[n] # <<>>
    /\ Head(inbox[n]).type = "data"
    /\ inbox' = [inbox EXCEPT ![n] = Tail(@)]
    /\ IF LimitReached(info)
       THEN /\ abandoned' = [abandoned EXCEPT ![n] = @ \union {sending[n].frame}]
            /\ BecomeIdle(n)
       ELSE /\ DataOut(n, [sending[n] EXCEPT !.num = info.num + 1])
            /\ UNCHANGED <<inIdle, txBuff, abandoned>>
    /\ UNCHANGED <<ackTimer, backoffVars, offered, received, succeeded, doubled,
                   marks>>

\* An acknowledgement that the timeout block let pass.  Its index is not
\* compared to that of the last frame sent.
IdleAck(n) ==
    /\ inbox[n] # <<>>
    /\ Head(inbox[n]).type = "ack"
    /\ inbox' = [inbox EXCEPT ![n] = Tail(@)]
    /\ succeeded' = [succeeded EXCEPT ![n] = @ \union {sending[n].frame}]
    /\ doubled' = [doubled EXCEPT ![n] = @ \/ sending[n].frame \in succeeded[n]]
    /\ BecomeIdle(n)
    /\ UNCHANGED <<ackTimer, backoffVars, offered, received, abandoned, marks>>

\* A data frame for me: not idle any more, and an acknowledgement.
ReceiveData(n) ==
    LET f == Head(air[n]) IN
    /\ air[n] # <<>>
    /\ f.type = "data"
    /\ received' = [received EXCEPT ![n] = @ \union {f.frame}]
    /\ inIdle' = [inIdle EXCEPT ![n] = FALSE]
    /\ stolen' = [stolen EXCEPT ![n] = @ \/ inIdle[n]]
    /\ air' = [air EXCEPT ![n] = Tail(@), ![Peer(n)] = OnAir(@, AckOnAir(f))]
    /\ UNCHANGED <<txBuff, sending, inbox, timeoutVars, backoffVars, offered,
                   sent, outcome, hurried, crossed, missed>>

-----------------------------------------------------------------------------
(* timeout_cpp *)

\* start_timeout: a frame that finds the flag set is not waited for.
StartTimeout(n) ==
    /\ txInfo[n] # <<>>
    /\ txInfo' = [txInfo EXCEPT ![n] = Tail(@)]
    /\ ackTimer' = [ackTimer EXCEPT ![n] = Started(@, Head(txInfo[n]))]
    /\ hurried' = [hurried EXCEPT ![n] = @ \/ Alive(ackTimer[n])]
    /\ UNCHANGED <<idleVars, backoffVars, air, offered, sent, received, outcome,
                   crossed, stolen, missed>>

\* Mutants: the index, or whether a timer runs, is not looked at.
AnyIndex(n, f) == ackTimer[n].set
EvenLate(n, f) == f.index = ackTimer[n].waiting.frame

\* The timer runs, and for the frame with the index of the acknowledgement.
Matches(n, f) == ackTimer[n].set /\ f.index = ackTimer[n].waiting.frame

\* kill_timeout, with an acknowledgement from the radio.
ReceiveAck(n) ==
    LET f == Head(air[n])
        t == ackTimer[n] IN
    /\ air[n] # <<>>
    /\ f.type = "ack"
    /\ Past(t) => crossed[n] + crossed[Peer(n)] < MaxCrossed
    /\ air' = [air EXCEPT ![n] = Tail(@)]
    /\ IF Matches(n, f)
       THEN /\ ackTimer' = [ackTimer EXCEPT ![n] = Killed(t)]
            /\ inbox' = [inbox EXCEPT ![n] =
                            Append(@, [type |-> "ack", info |-> t.waiting])]
            /\ crossed' = [crossed EXCEPT ![n] = @ + Bit(Past(t))]
            /\ UNCHANGED missed
       ELSE /\ missed' = (missed \/ (t.set /\ f.frame = t.waiting.frame))
            /\ UNCHANGED <<ackTimer, inbox, crossed>>
    /\ UNCHANGED <<inIdle, txBuff, sending, txInfo, backoffVars, offered, sent,
                   received, outcome, hurried, stolen>>

\* countdown_timeout has left its loop and looks at the flag.
TimerDecides(n) ==
    /\ ackTimer[n].counting > 0
    /\ ackTimer' = [ackTimer EXCEPT ![n] = Decided(@)]
    /\ UNCHANGED <<idleVars, txInfo, backoffVars, air, offered, sent, received,
                   outcome, marks>>

\* The waiting frame has timed out: it goes to the backoff block.
TimerPublishes(n) ==
    /\ ackTimer[n].due > 0
    /\ ackTimer' = [ackTimer EXCEPT ![n] = Told(@)]
    /\ backoffIn' = [backoffIn EXCEPT ![n] = Append(@, ackTimer[n].waiting)]
    /\ UNCHANGED <<idleVars, txInfo, backoffs, backoffInfo, air, offered, sent,
                   received, outcome, marks>>

TimerEnds(n) ==
    /\ ackTimer[n].ending > 0
    /\ ackTimer' = [ackTimer EXCEPT ![n] = Ended(@)]
    /\ UNCHANGED <<idleVars, txInfo, backoffVars, air, offered, sent, received,
                   outcome, marks>>

-----------------------------------------------------------------------------
(* exponential_backoff_cpp *)

\* start_backoff
StartBackoff(n) ==
    /\ backoffIn[n] # <<>>
    /\ backoffIn' = [backoffIn EXCEPT ![n] = Tail(@)]
    /\ backoffInfo' = [backoffInfo EXCEPT ![n] = Head(backoffIn[n])]
    /\ backoffs' = [backoffs EXCEPT ![n] = @ + 1]
    /\ UNCHANGED <<idleVars, timeoutVars, air, offered, sent, received, outcome,
                   marks>>

\* countdown_backoff at the end of its sleep: what is stored then is published.
BackoffEnds(n) ==
    /\ backoffs[n] > 0
    /\ backoffs' = [backoffs EXCEPT ![n] = @ - 1]
    /\ inbox' = [inbox EXCEPT ![n] =
                    Append(@, [type |-> "data", info |-> backoffInfo[n]])]
    /\ UNCHANGED <<inIdle, txBuff, sending, timeoutVars, backoffIn, backoffInfo,
                   air, offered, sent, received, outcome, marks>>

-----------------------------------------------------------------------------
\* Collision, noise, a failed checksum.
Lose(n) ==
    /\ air[n] # <<>>
    /\ air' = [air EXCEPT ![n] = Tail(@)]
    /\ UNCHANGED <<idleVars, timeoutVars, backoffVars, offered, sent, received,
                   outcome, marks>>

Idle(n) == IdleRetry(n) \/ IdleAck(n)
Timer(n) == TimerDecides(n) \/ TimerPublishes(n) \/ TimerEnds(n)
Backoff(n) == StartBackoff(n) \/ BackoffEnds(n)

\* What the blocks of the station do of themselves.
Works(n) == Idle(n) \/ StartTimeout(n) \/ Timer(n) \/ Backoff(n)

Acts(n) == AppPayload(n) \/ ReceiveData(n) \/ ReceiveAck(n) \/ Lose(n) \/ Works(n)

\* A station that was hurried is not followed any further: its handlers and
\* countdowns then overlap in more ways than AckTimer tells apart.
Next == \E n \in Node : ~hurried[n] /\ Acts(n)

Spec == Init /\ [][Next]_vars

\* A station with a message to handle or a thread to run goes on; the radio may
\* lose everything.  It does not matter which of them goes first, since they
\* all come to an end.
FairSpec == Spec /\ \A n \in Node : WF_vars(~hurried[n] /\ Works(n))

-----------------------------------------------------------------------------
(* Properties. *)

TypeOK ==
    /\ inIdle \in [Node -> BOOLEAN]
    /\ txBuff \in [Node -> Seq(Payload)]
    /\ sending \in [Node -> Info]
    /\ inbox \in [Node -> Seq([type : {"data", "ack"}, info : Info])]
    /\ txInfo \in [Node -> Seq(Info)]
    /\ ackTimer \in [Node -> Timers(Info)]
    /\ backoffIn \in [Node -> Seq(Info)]
    /\ backoffs \in [Node -> Nat]
    /\ backoffInfo \in [Node -> Info]
    /\ air \in [Node -> Seq([type : {"data", "ack"}, index : 0 .. IndexMod - 1,
                             frame : Payload])]
    /\ offered \in [Node -> 0 .. MaxFrames]
    /\ sent \in [Node -> [Payload -> Nat]]
    /\ received \in [Node -> SUBSET Payload]
    /\ succeeded \in [Node -> SUBSET Payload]
    /\ doubled \in [Node -> BOOLEAN]
    /\ abandoned \in [Node -> SUBSET Payload]
    /\ hurried \in [Node -> BOOLEAN]
    /\ crossed \in [Node -> Nat]
    /\ stolen \in [Node -> BOOLEAN]
    /\ missed \in BOOLEAN

\* Where the right to transmit is: with idle, with a frame being transmitted,
\* a timer, a backoff, or a verdict on its way back to idle.
Turns(n) ==
    Bit(inIdle[n]) + Len(txInfo[n]) + Owed(ackTimer[n])
        + Len(backoffIn[n]) + backoffs[n] + Len(inbox[n])

\* Stop and wait, as far as the code keeps it: the transmissions without a
\* verdict are one, and one more for each acknowledgement that crossed with
\* the timeout of its transmission.  A station that was hurried is left out:
\* its countdowns take each other's flag.
OneOutstanding == \A n \in Node : ~hurried[n] => Turns(n) <= 1 + crossed[n]

\* A station whose idleness was not taken away by data never loses its turn,
\* crossed verdicts or not.
TurnKept == \A n \in Node : ~hurried[n] /\ ~stolen[n] => Turns(n) >= 1

\* The station has had one verdict on each transmission.
Orderly(n) == ~hurried[n] /\ crossed[n] = 0

\* Every frame counted as successful has reached the peer, although idle does
\* not compare the index: no acknowledgement of an earlier frame, late or
\* repeated, gets past the timeout block at the wrong time.
SuccessMeansReceived ==
    \A n \in Node : Orderly(n) => succeeded[n] \subseteq received[Peer(n)]

\* No frame is counted twice, however many of its transmissions are
\* acknowledged, none is counted that was given up, and none is sent more often
\* than the limit allows.
CountedOnce ==
    \A n \in Node : Orderly(n) =>
        /\ ~doubled[n]
        /\ succeeded[n] \intersect abandoned[n] = {}
        /\ \A i \in Payload : sent[n][i] <= MaxTransmissions

\* "timeout is terminated by correctly received ack frame": an acknowledgement
\* of the frame being waited for is recognised.
AckRecognised == ~missed

\* Each frame of a station that keeps its turn is acknowledged or given up.
Resolved ==
    \A n \in Node : \A i \in 1 .. Offers[n] :
        offered[n] >= i ~>
            hurried[n] \/ stolen[n] \/ i \in succeeded[n] \/ i \in abandoned[n]
=============================================================================
