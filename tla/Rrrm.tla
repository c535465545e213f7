-------------------------------- MODULE Rrrm --------------------------------
(***************************************************************************)
(* The spectrum manager of src/python/rrrm.py on two nodes with turning     *)
(* antennas.  A radar message makes a node ask its peer for the next        *)
(* channel; each channel is a direction of the antenna.                     *)
(*                                                                          *)
(* GNU Radio runs the handlers of a block one at a time, on one thread:     *)
(* job is where that thread is.  Beside it run the thread that waits for    *)
(* the acceptance of a switch (a new one for each radar message, ack) and   *)
(* the one that watches the link (monitor).  thread_lock is taken by two    *)
(* handlers only, which never run together, and by no other thread: it      *)
(* excludes nothing and is left out.                                        *)
(*                                                                          *)
(* A line of the code that touches a member another thread uses is a step,  *)
(* with two reservations.  What a line loads and what it does with it are   *)
(* not parted: AckSteer and AckSet, which use next_channel_pos and          *)
(* next_channel_id, do not stop between the two while the other thread      *)
(* carries out a whole later switch.  And the assignments at the beginning  *)
(* of a switch come together: Radar, RadarAck and SwitchAsked set several   *)
(* members, the last up to the first acceptance it sends.                   *)
(***************************************************************************)
EXTENDS Integers, Sequences

CONSTANTS
    Node,         \* the access point and its client
    Channels,     \* length of channel_map: 3 in the flow graphs
    Turntable,    \* what __init__ found: see TurntableAssumption
    Detectors,    \* the nodes whose radar_in is sent anything
    Enough,       \* commands sent before giving up: 3
    MaxEvents,    \* bound: switches started and silences, of both nodes
    LinkCap       \* bound: frames on the air towards one node

ASSUME NodeAssumption == \E a, b \in Node : a # b /\ Node = {a, b}
ASSUME ChannelsAssumption == Channels \in Nat \ {0}
\* The serial port opened and the antenna always turns, or at times fails to;
\* it did not open (antenna_control is None); or there is no module control and
\* the member antenna_control does not exist.
ASSUME TurntableAssumption == Turntable \in {"turns", "jams", "unopened", "missing"}
ASSUME DetectorsAssumption == Detectors \subseteq Node
ASSUME EnoughAssumption == Enough \in Nat \ {0}
ASSUME BoundAssumption == MaxEvents \in Nat /\ LinkCap \in Nat

VARIABLES
    state,        \* state: "forward" or "switch"
    curr,         \* curr_channel_id
    next,         \* next_channel_id
    nextPos,      \* next_channel_pos, as the channel it belongs to
    ackReceived,  \* switch_ack_received
    ackThread,    \* switch_ack_thread, 0 for None
    lastPing,     \* last_ping_time: within the timeout ("heard") or "silent"
    pos,          \* the channel the antenna points along
    job,          \* the block's thread: which line is next
    asked,        \* channel and switch of the SWITCH being handled
    joins,        \* the thread being joined
    ack,          \* the threads of do_wait_for_switch_ack
    monitor,      \* the thread of do_check_ping
    link,         \* frames on the air towards a node
    \* history, read by no action of the code
    radars,       \* switches started: the number of the latest one
    taken,        \* the latest switch of the peer whose command was handled
    silences,     \* how often a link fell silent
    events        \* switches started and silences, counted for the bound

members == <<state, curr, next, nextPos, ackReceived, ackThread, lastPing, pos>>
threads == <<job, asked, joins, ack, monitor>>
history == <<radars, taken, silences, events>>
vars == <<members, threads, link, history>>

Peer(n) == CHOOSE m \in Node : m # n
Channel == 0 .. Channels - 1
After(c) == (c + 1) % Channels

Switch(c, i) == [type |-> "switch", chan |-> c, id |-> i]
Accept(i) == [type |-> "accept", chan |-> 0, id |-> i]
Frame == [type : {"switch", "accept"}, chan : Channel, id : Nat]

AckThread == 1 .. MaxEvents
NoThread == [pc |-> "none", count |-> 0]
Nothing == [chan |-> 0, id |-> 0]

\* The first ping of the peer has been heard: before, the monitor does nothing.
Init ==
    /\ state = [n \in Node |-> "forward"]
    /\ curr = [n \in Node |-> 0]
    /\ next = [n \in Node |-> 0]
    /\ nextPos = [n \in Node |-> 0]
    /\ ackReceived = [n \in Node |-> FALSE]
    /\ ackThread = [n \in Node |-> 0]
    /\ lastPing = [n \in Node |-> "heard"]
    /\ pos = [n \in Node |-> 0]
    /\ job = [n \in Node |-> "idle"]
    /\ asked = [n \in Node |-> Nothing]
    /\ joins = [n \in Node |-> 0]
    /\ ack = [n \in Node |-> [k \in AckThread |-> NoThread]]
    /\ monitor = [n \in Node |-> "watch"]
    /\ link = [n \in Node |-> <<>>]
    /\ radars = [n \in Node |-> 0]
    /\ taken = [n \in Node |-> 0]
    /\ silences = 0
    /\ events = 0

-----------------------------------------------------------------------------
(* The radio keeps order and loses frames, those beyond LinkCap too. *)

OnAir(q, f) == IF Len(q) < LinkCap THEN Append(q, f) ELSE q

Transmit(n, f) == link' = [link EXCEPT ![Peer(n)] = OnAir(@, f)]

\* Collision, noise, "Bad CRC", an antenna that points elsewhere.
Lose(n) ==
    /\ link[n] # <<>>
    /\ link' = [link EXCEPT ![n] = Tail(@)]
    /\ UNCHANGED <<members, threads, history>>

\* max_message_timeout passes without a frame, or the longer time that every
\* switch grants.
Silence(n) ==
    /\ events < MaxEvents
    /\ lastPing[n] = "heard"
    /\ lastPing' = [lastPing EXCEPT ![n] = "silent"]
    /\ silences' = silences + 1
    /\ events' = events + 1
    /\ UNCHANGED <<state, curr, next, nextPos, ackReceived, ackThread, pos,
                   threads, link, radars, taken>>

-----------------------------------------------------------------------------
(* Turning the antenna, which may raise; what is raised is caught. *)

Positions(n) ==
    (IF Turntable \in {"turns", "jams"} THEN {nextPos[n]} ELSE {})
    \cup (IF Turntable # "turns" THEN {pos[n]} ELSE {})

MoveTo(n) == \E c \in Positions(n) : pos' = [pos EXCEPT ![n] = c]

-----------------------------------------------------------------------------
(* handle_radar_message *)

\* "Already in SWITCH state": refused.
Radar(n) ==
    /\ n \in Detectors
    /\ events < MaxEvents
    /\ job[n] = "idle"
    /\ state[n] = "forward"
    /\ state' = [state EXCEPT ![n] = "switch"]
    /\ events' = events + 1
    /\ job' = [job EXCEPT ![n] = "radar_next"]
    /\ UNCHANGED <<curr, next, nextPos, ackReceived, ackThread, lastPing, pos,
                   asked, joins, ack, monitor, link, radars, taken, silences>>

RadarNext(n) ==
    /\ job[n] = "radar_next"
    /\ next' = [next EXCEPT ![n] = After(curr[n])]
    /\ radars' = [radars EXCEPT ![n] = @ + 1]
    /\ job' = [job EXCEPT ![n] = "radar_pos"]
    /\ UNCHANGED <<state, curr, nextPos, ackReceived, ackThread, lastPing, pos,
                   asked, joins, ack, monitor, link, taken, silences, events>>

RadarPos(n) ==
    /\ job[n] = "radar_pos"
    /\ nextPos' = [nextPos EXCEPT ![n] = next[n]]
    /\ job' = [job EXCEPT ![n] = "radar_ack"]
    /\ UNCHANGED <<state, curr, next, ackReceived, ackThread, lastPing, pos,
                   asked, joins, ack, monitor, link, history>>

\* Mutant: the answer to the last switch is not forgotten.
KeepReceived(n) == ackReceived

NoneReceived(n) == [ackReceived EXCEPT ![n] = FALSE]

RadarAck(n) ==
    /\ job[n] = "radar_ack"
    /\ ackReceived' = NoneReceived(n)
    /\ ackThread' = [ackThread EXCEPT ![n] = radars[n]]
    /\ job' = [job EXCEPT ![n] = "radar_start"]
    /\ UNCHANGED <<state, curr, next, nextPos, lastPing, pos, asked, joins, ack,
                   monitor, link, history>>

\* If an older thread has just set switch_ack_thread to None, the handler
\* raises and the thread of the block ends.
RadarStart(n) ==
    /\ job[n] = "radar_start"
    /\ IF ackThread[n] = 0
       THEN job' = [job EXCEPT ![n] = "dead"] /\ UNCHANGED ack
       ELSE /\ job' = [job EXCEPT ![n] = "idle"]
            /\ ack' = [ack EXCEPT ![n][ackThread[n]].pc = "test"]
    /\ UNCHANGED <<members, asked, joins, monitor, link, history>>

-----------------------------------------------------------------------------
(* do_wait_for_switch_ack, thread k of node n *)

\* Mutant: one command more.
GivesUpLate(n, k) == ack[n][k].count > Enough

GivesUp(n, k) == ack[n][k].count >= Enough

AckTest(n, k) ==
    /\ ack[n][k].pc = "test"
    /\ ack' = [ack EXCEPT ![n][k].pc =
                  IF GivesUp(n, k) THEN "give_up"
                  ELSE IF ackReceived[n] THEN "done" ELSE "send"]
    /\ UNCHANGED <<members, job, asked, joins, monitor, link, history>>

AckSend(n, k) ==
    /\ ack[n][k].pc = "send"
    /\ Transmit(n, Switch(next[n], radars[n]))
    /\ ack' = [ack EXCEPT ![n][k].pc = "sleep"]
    /\ UNCHANGED <<members, job, asked, joins, monitor, history>>

AckSleep(n, k) ==
    /\ ack[n][k].pc = "sleep"
    /\ ack' = [ack EXCEPT ![n][k] = [pc |-> "test", count |-> @.count + 1]]
    /\ UNCHANGED <<members, job, asked, joins, monitor, link, history>>

\* "FATAL: Missing SWITCH ACK", also if it has come during the last wait.
AckGiveUp(n, k) ==
    /\ ack[n][k].pc = "give_up"
    /\ ackReceived' = [ackReceived EXCEPT ![n] = TRUE]
    /\ ack' = [ack EXCEPT ![n][k].pc = "unset"]
    /\ UNCHANGED <<state, curr, next, nextPos, ackThread, lastPing, pos, job,
                   asked, joins, monitor, link, history>>

\* Without the module control the next line raises and the thread ends.
AckUnset(n, k) ==
    /\ ack[n][k].pc = "unset"
    /\ ackThread' = [ackThread EXCEPT ![n] = 0]
    /\ ack' = [ack EXCEPT ![n][k].pc =
                  IF Turntable = "missing" THEN "done" ELSE "steer"]
    /\ UNCHANGED <<state, curr, next, nextPos, ackReceived, lastPing, pos, job,
                   asked, joins, monitor, link, history>>

AckSteer(n, k) ==
    /\ ack[n][k].pc = "steer"
    /\ MoveTo(n)
    /\ ack' = [ack EXCEPT ![n][k].pc = "set"]
    /\ UNCHANGED <<state, curr, next, nextPos, ackReceived, ackThread, lastPing,
                   job, asked, joins, monitor, link, history>>

TakeNext(n) == [curr EXCEPT ![n] = next[n]]

AckSet(n, k) ==
    /\ ack[n][k].pc = "set"
    /\ curr' = TakeNext(n)
    /\ ack' = [ack EXCEPT ![n][k].pc = "end"]
    /\ UNCHANGED <<state, next, nextPos, ackReceived, ackThread, lastPing, pos,
                   job, asked, joins, monitor, link, history>>

\* Mutant: the state is not set back.
StaySwitching(n) == state

Forward(n) == [state EXCEPT ![n] = "forward"]

AckEnd(n, k) ==
    /\ ack[n][k].pc = "end"
    /\ lastPing' = [lastPing EXCEPT ![n] = "heard"]
    /\ state' = Forward(n)
    /\ ack' = [ack EXCEPT ![n][k].pc = "done"]
    /\ UNCHANGED <<curr, next, nextPos, ackReceived, ackThread, pos, job, asked,
                   joins, monitor, link, history>>

AckStep(n, k) ==
    \/ AckTest(n, k) \/ AckSend(n, k) \/ AckSleep(n, k) \/ AckGiveUp(n, k)
    \/ AckUnset(n, k) \/ AckSteer(n, k) \/ AckSet(n, k) \/ AckEnd(n, k)

-----------------------------------------------------------------------------
(* handle_rrrm_message *)

Hears(n) == lastPing' = [lastPing EXCEPT ![n] = "heard"]

\* A payload or one of the pings that the peer's ping thread keeps sending.
\* They carry nothing that the state depends on: any number may arrive.
Ping(n) ==
    /\ job[n] = "idle"
    /\ lastPing[n] = "silent"
    /\ Hears(n)
    /\ UNCHANGED <<state, curr, next, nextPos, ackReceived, ackThread, pos,
                   threads, link, history>>

\* The frame at the head of the link reaches a block that has nothing to do.
Arrives(n, type) == job[n] = "idle" /\ link[n] # <<>> /\ Head(link[n]).type = type

\* A command for the channel the node is on: nothing is answered.
SwitchKnown(n) ==
    /\ Arrives(n, "switch")
    /\ Head(link[n]).chan = curr[n]
    /\ Hears(n)
    /\ taken' = [taken EXCEPT ![n] = Head(link[n]).id]
    /\ link' = [link EXCEPT ![n] = Tail(@)]
    /\ UNCHANGED <<state, curr, next, nextPos, ackReceived, ackThread, pos,
                   threads, radars, silences, events>>

\* A command for another channel, with the first of three acceptances.
SwitchAsked(n) ==
    LET f == Head(link[n]) IN
    /\ Arrives(n, "switch")
    /\ f.chan # curr[n]
    /\ Hears(n)
    /\ state' = [state EXCEPT ![n] = "switch"]
    /\ nextPos' = [nextPos EXCEPT ![n] = f.chan]
    /\ asked' = [asked EXCEPT ![n] = [chan |-> f.chan, id |-> f.id]]
    /\ taken' = [taken EXCEPT ![n] = f.id]
    /\ job' = [job EXCEPT ![n] = "accept_2"]
    /\ link' = [link EXCEPT ![n] = Tail(@),
                            ![Peer(n)] = OnAir(@, Accept(f.id))]
    /\ UNCHANGED <<curr, next, ackReceived, ackThread, pos, joins, ack, monitor,
                   radars, silences, events>>

AcceptAgain(n) ==
    /\ job[n] \in {"accept_2", "accept_3"}
    /\ Transmit(n, Accept(asked[n].id))
    /\ job' = [job EXCEPT ![n] =
                  IF job[n] = "accept_2" THEN "accept_3" ELSE "switch_set"]
    /\ UNCHANGED <<members, asked, joins, ack, monitor, history>>

\* Mutant: the node stays where it was.
StayPut(n) == curr

TakeAsked(n) == [curr EXCEPT ![n] = asked[n].chan]

SwitchSet(n) ==
    /\ job[n] = "switch_set"
    /\ curr' = TakeAsked(n)
    /\ job' = [job EXCEPT ![n] = "steer"]
    /\ asked' = [asked EXCEPT ![n] = Nothing]
    /\ UNCHANGED <<state, next, nextPos, ackReceived, ackThread, lastPing, pos,
                   joins, ack, monitor, link, history>>

\* "Duplicate ACK, we'll receive 3 ACKs": ignored.
AcceptIgnored(n) ==
    /\ Arrives(n, "accept")
    /\ ackReceived[n]
    /\ Hears(n)
    /\ link' = [link EXCEPT ![n] = Tail(@)]
    /\ UNCHANGED <<state, curr, next, nextPos, ackReceived, ackThread, pos,
                   threads, history>>

Accepted(n) ==
    /\ Arrives(n, "accept")
    /\ ~ackReceived[n]
    /\ Hears(n)
    /\ ackReceived' = [ackReceived EXCEPT ![n] = TRUE]
    /\ job' = [job EXCEPT ![n] = "ack_thread"]
    /\ link' = [link EXCEPT ![n] = Tail(@)]
    /\ UNCHANGED <<state, curr, next, nextPos, ackThread, pos, asked, joins, ack,
                   monitor, history>>

\* switch_ack_thread != None
AcceptedThread(n) ==
    /\ job[n] = "ack_thread"
    /\ job' = [job EXCEPT ![n] = IF ackThread[n] = 0 THEN "ack_set" ELSE "ack_alive"]
    /\ UNCHANGED <<members, asked, joins, ack, monitor, link, history>>

\* switch_ack_thread.isAlive(), which raises if the thread has set it to None.
AcceptedAlive(n) ==
    /\ job[n] = "ack_alive"
    /\ job' = [job EXCEPT ![n] = IF ackThread[n] = 0 THEN "dead" ELSE "ack_join"]
    /\ joins' = [joins EXCEPT ![n] = ackThread[n]]
    /\ UNCHANGED <<members, asked, ack, monitor, link, history>>

AcceptedJoin(n) ==
    /\ job[n] = "ack_join"
    /\ \E k \in AckThread : joins[n] = k /\ ack[n][k].pc = "done"
    /\ job' = [job EXCEPT ![n] = "ack_set"]
    /\ joins' = [joins EXCEPT ![n] = 0]
    /\ UNCHANGED <<members, asked, ack, monitor, link, history>>

AcceptedSet(n) ==
    /\ job[n] = "ack_set"
    /\ ackThread' = [ackThread EXCEPT ![n] = 0]
    /\ curr' = TakeNext(n)
    /\ job' = [job EXCEPT ![n] = "steer"]
    /\ UNCHANGED <<state, next, nextPos, ackReceived, lastPing, pos, asked, joins,
                   ack, monitor, link, history>>

\* What follows is written twice in the code, after either message.
Steer(n) ==
    /\ job[n] = "steer"
    /\ MoveTo(n)
    /\ job' = [job EXCEPT ![n] = "end"]
    /\ UNCHANGED <<state, curr, next, nextPos, ackReceived, ackThread, lastPing,
                   asked, joins, ack, monitor, link, history>>

SwitchEnd(n) ==
    /\ job[n] = "end"
    /\ Hears(n)
    /\ state' = Forward(n)
    /\ job' = [job EXCEPT ![n] = "idle"]
    /\ UNCHANGED <<curr, next, nextPos, ackReceived, ackThread, pos, asked, joins,
                   ack, monitor, link, history>>

-----------------------------------------------------------------------------
(* do_check_ping *)

MonitorTest(n) ==
    /\ monitor[n] = "watch"
    /\ lastPing[n] = "silent"
    /\ state[n] = "forward"
    /\ monitor' = [monitor EXCEPT ![n] = "next"]
    /\ UNCHANGED <<members, job, asked, joins, ack, link, history>>

MonitorNext(n) ==
    /\ monitor[n] = "next"
    /\ next' = [next EXCEPT ![n] = After(curr[n])]
    /\ monitor' = [monitor EXCEPT ![n] = "pos"]
    /\ UNCHANGED <<state, curr, nextPos, ackReceived, ackThread, lastPing, pos,
                   job, asked, joins, ack, link, history>>

\* Without the module control the line after this one raises.
MonitorPos(n) ==
    /\ monitor[n] = "pos"
    /\ nextPos' = [nextPos EXCEPT ![n] = next[n]]
    /\ monitor' = [monitor EXCEPT ![n] =
                      IF Turntable = "missing" THEN "dead" ELSE "steer"]
    /\ UNCHANGED <<state, curr, next, ackReceived, ackThread, lastPing, pos, job,
                   asked, joins, ack, link, history>>

MonitorSteer(n) ==
    /\ monitor[n] = "steer"
    /\ MoveTo(n)
    /\ monitor' = [monitor EXCEPT ![n] = "set"]
    /\ UNCHANGED <<state, curr, next, nextPos, ackReceived, ackThread, lastPing,
                   job, asked, joins, ack, link, history>>

MonitorSet(n) ==
    /\ monitor[n] = "set"
    /\ curr' = TakeNext(n)
    /\ monitor' = [monitor EXCEPT ![n] = "end"]
    /\ UNCHANGED <<state, next, nextPos, ackReceived, ackThread, lastPing, pos,
                   job, asked, joins, ack, link, history>>

MonitorEnd(n) ==
    /\ monitor[n] = "end"
    /\ Hears(n)
    /\ monitor' = [monitor EXCEPT ![n] = "watch"]
    /\ UNCHANGED <<state, curr, next, nextPos, ackReceived, ackThread, pos, job,
                   asked, joins, ack, link, history>>

MonitorStep(n) ==
    \/ MonitorTest(n) \/ MonitorNext(n) \/ MonitorPos(n) \/ MonitorSteer(n)
    \/ MonitorSet(n) \/ MonitorEnd(n)

-----------------------------------------------------------------------------
\* The handlers of a node begin ...
Message(n) ==
    \/ Radar(n) \/ Ping(n) \/ SwitchKnown(n) \/ SwitchAsked(n)
    \/ AcceptIgnored(n) \/ Accepted(n)

\* ... and go on.
JobStep(n) ==
    \/ RadarNext(n) \/ RadarPos(n) \/ RadarAck(n) \/ RadarStart(n)
    \/ AcceptAgain(n) \/ SwitchSet(n)
    \/ AcceptedThread(n) \/ AcceptedAlive(n) \/ AcceptedJoin(n) \/ AcceptedSet(n)
    \/ Steer(n) \/ SwitchEnd(n)

Next == \E n \in Node :
    \/ Message(n) \/ JobStep(n) \/ MonitorStep(n)
    \/ Lose(n) \/ Silence(n)
    \/ \E k \in AckThread : AckStep(n, k)

Spec == Init /\ [][Next]_vars

\* Threads that have begun something are scheduled.  No message need arrive.
FairSpec ==
    /\ Spec
    /\ \A n \in Node : WF_vars(JobStep(n)) /\ WF_vars(MonitorStep(n))
    /\ \A n \in Node : \A k \in AckThread : WF_vars(AckStep(n, k))

-----------------------------------------------------------------------------
(* Properties. *)

JobPc == {"idle", "radar_next", "radar_pos", "radar_ack", "radar_start",
          "accept_2", "accept_3", "switch_set", "ack_thread", "ack_alive",
          "ack_join", "ack_set", "steer", "end", "dead"}
AckPc == {"none", "test", "send", "sleep", "give_up", "unset", "steer", "set", "end", "done"}
MonitorPc == {"watch", "next", "pos", "steer", "set", "end", "dead"}

TypeOK ==
    /\ state \in [Node -> {"forward", "switch"}]
    /\ curr \in [Node -> Channel]
    /\ next \in [Node -> Channel]
    /\ nextPos \in [Node -> Channel]
    /\ ackReceived \in [Node -> BOOLEAN]
    /\ ackThread \in [Node -> 0 .. MaxEvents]
    /\ lastPing \in [Node -> {"heard", "silent"}]
    /\ pos \in [Node -> Channel]
    /\ job \in [Node -> JobPc]
    /\ asked \in [Node -> [chan : Channel, id : Nat]]
    /\ joins \in [Node -> 0 .. MaxEvents]
    /\ ack \in [Node -> [AckThread -> [pc : AckPc, count : 0 .. Enough]]]
    /\ monitor \in [Node -> MonitorPc]
    /\ link \in [Node -> Seq(Frame)]
    /\ radars \in [Node -> 0 .. MaxEvents]
    /\ taken \in [Node -> Nat]
    /\ silences \in 0 .. MaxEvents
    /\ events \in 0 .. MaxEvents
    /\ \A n \in Node :
          radars[n] + (IF job[n] = "radar_next" THEN 1 ELSE 0) <= events

\* Nothing of the node is under way.
AtRest(n) ==
    /\ job[n] \in {"idle", "dead"}
    /\ monitor[n] \in {"watch", "dead"}
    /\ \A k \in AckThread : ack[n][k].pc \in {"none", "done"}

\* Only one node has seen radar: n, if any.
OnlyRadarAt(n) == radars[Peer(n)] = 0

\* Once everything has come to rest, both nodes are on one channel if a single
\* command of the last switch reached the peer: whatever happened to the other
\* commands and to the acceptances, of this switch or of those before it, and
\* whichever of the threads ended the switch.  Only one node has seen radar and
\* no link has fallen silent.
SameChannel ==
    \A n \in Node :
        /\ AtRest(n) /\ AtRest(Peer(n)) /\ link[Peer(n)] = <<>>
        /\ OnlyRadarAt(n) /\ silences = 0
        /\ taken[Peer(n)] = radars[n]
        => curr[n] = curr[Peer(n)]

\* Under the same condition the antenna of a node at rest points along its
\* channel, although the block's thread and the waiting thread may both turn it
\* for the same switch, and one of them for the next.
AntennaFollows ==
    \A n, m \in Node :
        /\ AtRest(n) /\ OnlyRadarAt(m)
        /\ Turntable = "turns" /\ silences = 0
        => pos[n] = curr[n]

\* No node stays in the switch state, where it discards every payload: whatever
\* is lost, however switches of both nodes cross, and even if the thread of the
\* block dies.  It needs a turntable to call: with Turntable "missing" the
\* threads raise before they set the state back, and it fails.
SwitchEnds == \A n \in Node : state[n] = "switch" ~> state[n] = "forward"

\* "Duplicate ACK, we'll receive 3 ACKs": a further acceptance of a switch that
\* has ended ends no other.
DuplicatesIgnored ==
    [][\A n \in Node : Accepted(n) => Head(link[n]).id = radars[n]]_vars
=============================================================================
