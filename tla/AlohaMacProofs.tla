--------------------------- MODULE AlohaMacProofs ---------------------------
(***************************************************************************)
(* Theorems about AlohaMac, for every value of its constants.               *)
(*                                                                          *)
(* The argument has two parts.  The first counts: every step moves the      *)
(* right to transmit from one holder to another, and only an                *)
(* acknowledgement that crosses adds one, so that a station has one turn    *)
(* and one more for each of them (CountInv).  The second is about a station *)
(* that has had one verdict on each transmission: whoever holds its one     *)
(* turn holds the info of the frame sent last (TurnInv), so a verdict is    *)
(* about that frame although idle never looks.  A late acknowledgement      *)
(* cannot stand in for that of the frame waited for: it is of an earlier    *)
(* frame, and a frame recognised at all is its own index in the header, at  *)
(* most as large as the frame that carried it.                              *)
(***************************************************************************)
EXTENDS AlohaMac, SequenceTheorems, TLAPS

\* A station that has not sent anything has nothing under way.
StartedInv(n) ==
    sending[n].frame = 0 =>
        /\ txInfo[n] = <<>> /\ ~ackTimer[n].set /\ ~Alive(ackTimer[n])
        /\ backoffIn[n] = <<>> /\ backoffs[n] = 0 /\ inbox[n] = <<>>

\* The buffer holds the frames after the one sent last, none of them sent yet.
BufferInv(n) ==
    /\ offered[n] = sending[n].frame + Len(txBuff[n])
    /\ \A j \in 1 .. Len(txBuff[n]) : txBuff[n][j] = sending[n].frame + j
    /\ \A i \in Payload : i > sending[n].frame => sent[n][i] = 0

BaseInv(n) == StartedInv(n) /\ BufferInv(n)

\* One countdown at most, and one for the flag.
OneThread(t) ==
    /\ t.counting + t.due + t.ending <= 1
    /\ t.set => Alive(t)

CountInv(n) ==
    ~hurried[n] =>
        /\ OneThread(ackTimer[n])
        /\ Turns(n) <= 1 + crossed[n]
        /\ ~stolen[n] => Turns(n) >= 1

\* The frame sent last has no verdict yet.
Pending(n) ==
    /\ sending[n].frame > 0
    /\ sending[n].frame \notin succeeded[n] \union abandoned[n]

Verdict(n, t) == [type |-> t, info |-> sending[n]]

\* Whoever has the turn, idle aside, holds the info of the frame sent last, and
\* that frame has no verdict yet.
TurnInv(n) ==
    /\ txInfo[n] # <<>> => txInfo[n] = <<sending[n]>> /\ Pending(n)
    /\ Owed(ackTimer[n]) > 0 => ackTimer[n].waiting = sending[n] /\ Pending(n)
    /\ backoffIn[n] # <<>> => backoffIn[n] = <<sending[n]>> /\ Pending(n)
    /\ backoffs[n] > 0 => backoffInfo[n] = sending[n] /\ Pending(n)
    /\ inbox[n] # <<>> => /\ \E t \in {"data", "ack"} : inbox[n] = <<Verdict(n, t)>>
                          /\ Pending(n)

\* Frames are sent as often as their info says, and not more than they may be.
SentInv(n) ==
    /\ sending[n].frame > 0 => sent[n][sending[n].frame] = sending[n].num
    /\ \A i \in Payload : sent[n][i] <= MaxTransmissions

\* Frames with a verdict have been sent, and none has two verdicts.
VerdictInv(n) ==
    /\ \A i \in succeeded[n] \union abandoned[n] : i <= sending[n].frame
    /\ succeeded[n] \intersect abandoned[n] = {}
    /\ ~doubled[n]

OrderlyInv(n) == Orderly(n) => TurnInv(n) /\ SentInv(n) /\ VerdictInv(n)

NodeInv(n) == BaseInv(n) /\ CountInv(n) /\ OrderlyInv(n)

\* What is counted as successful, or is about to be, has reached the peer.
AckInv(n) ==
    Orderly(n) =>
        /\ succeeded[n] \subseteq received[Peer(n)]
        /\ inbox[n] = <<Verdict(n, "ack")>> => sending[n].frame \in received[Peer(n)]

\* What f says when it reaches n.
Good(n, f) ==
    /\ f.index = f.frame % IndexMod
    /\ f.type = "data" => f.frame <= sending[Peer(n)].frame
    /\ f.type = "ack" => f.frame <= sending[n].frame /\ f.frame \in received[Peer(n)]

Items(q) == {q[j] : j \in 1 .. Len(q)}

AirInv(n) == \A f \in Items(air[n]) : Good(n, f)

AlohaInv == \A n \in Node : NodeInv(n) /\ AckInv(n) /\ AirInv(n)

-----------------------------------------------------------------------------
(* Stations. *)

\* Each station has a peer, which is the other one.
LEMMA PeerIsNode ==
    /\ \A n \in Node : Peer(n) \in Node /\ Peer(n) # n /\ Peer(Peer(n)) = n
    /\ \A n \in Node, m \in Node : m = n \/ m = Peer(n)
<1>1. \A n \in Node : Peer(n) \in Node /\ Peer(n) # n
  BY StationAssumption DEF Peer
<1>2. PICK a \in Node, b \in Node : a # b /\ Node = {a, b}
  BY StationAssumption
<1> QED BY <1>1, <1>2

AirFrame == [type : {"data", "ack"}, index : 0 .. IndexMod - 1, frame : Payload]
Inbox == [type : {"data", "ack"}, info : Info]

\* What the variables of one station are.
LEMMA LocalTypes ==
    ASSUME TypeOK, NEW n \in Node
    PROVE  /\ inIdle[n] \in BOOLEAN /\ txBuff[n] \in Seq(Payload)
           /\ sending[n] \in Info
           /\ sending[n].frame \in Nat /\ sending[n].num \in Nat
           /\ inbox[n] \in Seq(Inbox) /\ txInfo[n] \in Seq(Info)
           /\ ackTimer[n] \in Timers(Info) /\ backoffIn[n] \in Seq(Info)
           /\ backoffs[n] \in Nat /\ backoffInfo[n] \in Info
           /\ air[n] \in Seq(AirFrame)
           /\ offered[n] \in Nat /\ offered[n] <= MaxFrames
           /\ sent[n] \in [Payload -> Nat]
           /\ received[n] \subseteq Payload
           /\ succeeded[n] \subseteq Payload /\ abandoned[n] \subseteq Payload
           /\ hurried[n] \in BOOLEAN /\ stolen[n] \in BOOLEAN /\ crossed[n] \in Nat
<1>1. /\ sending \in [Node -> Info] /\ inIdle \in [Node -> BOOLEAN]
      /\ txBuff \in [Node -> Seq(Payload)] /\ inbox \in [Node -> Seq(Inbox)]
      /\ txInfo \in [Node -> Seq(Info)] /\ ackTimer \in [Node -> Timers(Info)]
      /\ backoffIn \in [Node -> Seq(Info)] /\ backoffs \in [Node -> Nat]
      /\ backoffInfo \in [Node -> Info] /\ air \in [Node -> Seq(AirFrame)]
      /\ offered \in [Node -> 0 .. MaxFrames]
      /\ sent \in [Node -> [Payload -> Nat]]
      /\ received \in [Node -> SUBSET Payload]
      /\ succeeded \in [Node -> SUBSET Payload]
      /\ abandoned \in [Node -> SUBSET Payload]
      /\ hurried \in [Node -> BOOLEAN] /\ stolen \in [Node -> BOOLEAN]
      /\ crossed \in [Node -> Nat]
  BY DEF TypeOK, Inbox, AirFrame
<1>2. sending[n] \in Info /\ sending[n].frame \in Nat /\ sending[n].num \in Nat
  BY <1>1, BoundsAssumption, LimitAssumption DEF Info
<1>3. offered[n] \in Nat /\ offered[n] <= MaxFrames
  BY <1>1, BoundsAssumption
<1> QED BY <1>1, <1>2, <1>3

\* The same for the functions of all stations.
LEMMA GlobalTypes ==
    TypeOK => /\ air \in [Node -> Seq(AirFrame)]
              /\ inbox \in [Node -> Seq(Inbox)]
BY DEF TypeOK, AirFrame, Inbox

-----------------------------------------------------------------------------
(* The timer, one step at a time. *)

\* A start that finds no countdown.
LEMMA TimerStarted ==
    ASSUME NEW S, NEW t \in Timers(S), NEW i \in S
    PROVE  /\ Started(t, i) \in Timers(S)
           /\ ~Alive(t) /\ OneThread(t) =>
                 /\ OneThread(Started(t, i)) /\ Started(t, i).waiting = i
                 /\ Owed(t) = 0 /\ Owed(Started(t, i)) = 1
<1>1. Started(t, i) \in Timers(S)
  <2>1. CASE t.set
    BY <2>1 DEF Started
  <2>2. CASE ~t.set
    <3>1. Started(t, i) = [set |-> TRUE, waiting |-> i, counting |-> t.counting + 1,
                           due |-> t.due, ending |-> t.ending]
      BY <2>2 DEF Started, Timers
    <3> QED BY <3>1 DEF Timers
  <2> QED BY <2>1, <2>2
<1>2. ASSUME ~Alive(t), OneThread(t)
      PROVE  /\ OneThread(Started(t, i)) /\ Started(t, i).waiting = i
             /\ Owed(t) = 0 /\ Owed(Started(t, i)) = 1
  <2>1. ~t.set /\ t.counting = 0 /\ t.due = 0 /\ t.ending = 0
    BY <1>2 DEF OneThread, Alive, Timers
  <2>2. PICK u : u = Started(t, i)
    OBVIOUS
  <2>3. u.set /\ u.waiting = i /\ u.counting = 1 /\ u.due = 0 /\ u.ending = 0
    BY <2>1, <2>2 DEF Started, Timers
  <2> QED BY <2>1, <2>2, <2>3 DEF OneThread, Alive, Owed, Bit
<1> QED BY <1>1, <1>2

\* An acknowledgement stops the countdown, or crosses with it.
LEMMA TimerKilled ==
    ASSUME NEW S, NEW t \in Timers(S)
    PROVE  /\ Killed(t) \in Timers(S) /\ Killed(t).waiting = t.waiting
           /\ t.set /\ OneThread(t) =>
                 /\ OneThread(Killed(t))
                 /\ Past(t) => Owed(Killed(t)) = Owed(t)
                 /\ ~Past(t) => Owed(Killed(t)) = 0 /\ Owed(t) = 1
<1>1. Killed(t) \in Timers(S) /\ Killed(t).waiting = t.waiting
  BY DEF Killed, Timers
<1>2. /\ ~Killed(t).set /\ Killed(t).counting = t.counting /\ Killed(t).due = t.due
      /\ Killed(t).ending = t.ending
  BY DEF Killed, Timers
<1>3. t.counting \in Nat /\ t.due \in Nat /\ t.ending \in Nat /\ t.set \in BOOLEAN
  BY DEF Timers
<1> QED BY <1>1, <1>2, <1>3 DEF OneThread, Alive, Past, Owed, Bit

\* A countdown goes on.
LEMMA TimerRuns ==
    ASSUME NEW S, NEW t \in Timers(S)
    PROVE  /\ t.counting > 0 => Decided(t) \in Timers(S) /\ Decided(t).waiting = t.waiting
           /\ t.due > 0 => Told(t) \in Timers(S) /\ Told(t).waiting = t.waiting
           /\ t.ending > 0 => Ended(t) \in Timers(S) /\ Ended(t).waiting = t.waiting
           /\ OneThread(t) /\ t.counting > 0 =>
                 OneThread(Decided(t)) /\ Owed(Decided(t)) = Owed(t)
           /\ OneThread(t) /\ t.due > 0 =>
                 OneThread(Told(t)) /\ Owed(Told(t)) = 0 /\ Owed(t) = 1
           /\ OneThread(t) /\ t.ending > 0 =>
                 OneThread(Ended(t)) /\ Owed(Ended(t)) = 0 /\ Owed(t) = 0
<1>1. t.counting \in Nat /\ t.due \in Nat /\ t.ending \in Nat /\ t.set \in BOOLEAN
  BY DEF Timers
<1>2. ASSUME t.counting > 0
      PROVE  /\ Decided(t) \in Timers(S) /\ Decided(t).waiting = t.waiting
             /\ OneThread(t) => OneThread(Decided(t)) /\ Owed(Decided(t)) = Owed(t)
  <2>1. Decided(t) \in Timers(S) /\ Decided(t).waiting = t.waiting
    <3>1. Decided(t) = [set |-> t.set, waiting |-> t.waiting, counting |-> t.counting - 1,
                        due |-> IF t.set THEN t.due + 1 ELSE t.due,
                        ending |-> IF t.set THEN t.ending ELSE t.ending + 1]
      BY DEF Decided, Timers
    <3> QED BY <1>1, <1>2, <3>1 DEF Timers
  <2>2. CASE t.set
    <3>1. /\ Decided(t).set /\ Decided(t).counting = t.counting - 1
          /\ Decided(t).due = t.due + 1 /\ Decided(t).ending = t.ending
      BY <2>2 DEF Decided, Timers
    <3> QED BY <1>1, <1>2, <2>1, <2>2, <3>1 DEF OneThread, Alive, Owed, Bit
  <2>3. CASE ~t.set
    <3>1. /\ ~Decided(t).set /\ Decided(t).counting = t.counting - 1
          /\ Decided(t).due = t.due /\ Decided(t).ending = t.ending + 1
      BY <2>3 DEF Decided, Timers
    <3> QED BY <1>1, <1>2, <2>1, <2>3, <3>1 DEF OneThread, Alive, Owed, Bit
  <2> QED BY <2>2, <2>3
<1>3. ASSUME t.due > 0
      PROVE  /\ Told(t) \in Timers(S) /\ Told(t).waiting = t.waiting
             /\ OneThread(t) => OneThread(Told(t)) /\ Owed(Told(t)) = 0 /\ Owed(t) = 1
  <2>1. Told(t) \in Timers(S) /\ Told(t).waiting = t.waiting
    <3>1. t.due - 1 \in Nat /\ t.ending + 1 \in Nat
      BY <1>1, <1>3
    <3> QED BY <3>1 DEF Told, Timers
  <2>2. /\ Told(t).set = t.set /\ Told(t).counting = t.counting
        /\ Told(t).due = t.due - 1 /\ Told(t).ending = t.ending + 1
    BY DEF Told, Timers
  <2> QED BY <1>1, <1>3, <2>1, <2>2 DEF OneThread, Alive, Owed, Bit
<1>4. ASSUME t.ending > 0
      PROVE  /\ Ended(t) \in Timers(S) /\ Ended(t).waiting = t.waiting
             /\ OneThread(t) => OneThread(Ended(t)) /\ Owed(Ended(t)) = 0 /\ Owed(t) = 0
  <2>1. Ended(t) \in Timers(S) /\ Ended(t).waiting = t.waiting
    <3>1. t.ending - 1 \in Nat
      BY <1>1, <1>4
    <3> QED BY <3>1 DEF Ended, FlagAtEnd, Timers
  <2>2. /\ ~Ended(t).set /\ Ended(t).counting = t.counting
        /\ Ended(t).due = t.due /\ Ended(t).ending = t.ending - 1
    BY DEF Ended, FlagAtEnd, Timers
  <2> QED BY <1>1, <1>4, <2>1, <2>2 DEF OneThread, Alive, Owed, Bit
<1> QED BY <1>2, <1>3, <1>4

-----------------------------------------------------------------------------
(* The station that does not act. *)

Local(n) == <<inIdle[n], txBuff[n], sending[n], inbox[n], txInfo[n], ackTimer[n],
              backoffIn[n], backoffs[n], backoffInfo[n], offered[n], sent[n],
              received[n], succeeded[n], doubled[n], abandoned[n], hurried[n],
              crossed[n], stolen[n]>>

\* A frame is sent by one station.
LEMMA SendsAlone ==
    ASSUME TypeOK, NEW n \in Node, NEW m \in Node, m # n
    PROVE  /\ \A info : DataOut(n, info) =>
                 sending'[m] = sending[m] /\ txInfo'[m] = txInfo[m] /\ sent'[m] = sent[m]
           /\ \A q : SendNext(n, q) =>
                 /\ sending'[m] = sending[m] /\ txInfo'[m] = txInfo[m] /\ sent'[m] = sent[m]
                 /\ txBuff'[m] = txBuff[m] /\ inIdle'[m] = inIdle[m]
           /\ BecomeIdle(n) =>
                 /\ sending'[m] = sending[m] /\ txInfo'[m] = txInfo[m] /\ sent'[m] = sent[m]
                 /\ txBuff'[m] = txBuff[m] /\ inIdle'[m] = inIdle[m]
<1>1. ASSUME NEW info, DataOut(n, info)
      PROVE  sending'[m] = sending[m] /\ txInfo'[m] = txInfo[m] /\ sent'[m] = sent[m]
  BY <1>1 DEF DataOut, TypeOK
<1>2. ASSUME NEW q, SendNext(n, q)
      PROVE  /\ sending'[m] = sending[m] /\ txInfo'[m] = txInfo[m] /\ sent'[m] = sent[m]
             /\ txBuff'[m] = txBuff[m] /\ inIdle'[m] = inIdle[m]
  <2>1. DataOut(n, [frame |-> Head(q), num |-> 1])
    BY <1>2 DEF SendNext
  <2>2. txBuff'[m] = txBuff[m] /\ inIdle'[m] = inIdle[m]
    BY <1>2 DEF SendNext, TypeOK
  <2> QED BY <1>1, <2>1, <2>2
<1>3. ASSUME BecomeIdle(n)
      PROVE  /\ sending'[m] = sending[m] /\ txInfo'[m] = txInfo[m] /\ sent'[m] = sent[m]
             /\ txBuff'[m] = txBuff[m] /\ inIdle'[m] = inIdle[m]
  <2>1. CASE txBuff[n] # <<>>
    BY <1>2, <1>3, <2>1 DEF BecomeIdle
  <2>2. CASE txBuff[n] = <<>>
    BY <1>3, <2>2 DEF BecomeIdle, TypeOK
  <2> QED BY <2>1, <2>2
<1> QED BY <1>1, <1>2, <1>3

\* A step of one station leaves the other one's state alone.
LEMMA Elsewhere ==
    ASSUME TypeOK, NEW n \in Node, NEW m \in Node, m # n, Acts(n)
    PROVE  Local(m)' = Local(m)
<1>1. CASE AppPayload(n)
  <2>1. offered'[m] = offered[m]
    BY <1>1 DEF AppPayload, TypeOK
  <2>2. /\ sending'[m] = sending[m] /\ txInfo'[m] = txInfo[m] /\ sent'[m] = sent[m]
        /\ txBuff'[m] = txBuff[m] /\ inIdle'[m] = inIdle[m]
    <3>1. CASE MaySend(n)
      BY <1>1, <3>1, SendsAlone DEF AppPayload
    <3>2. CASE ~MaySend(n)
      BY <1>1, <3>2 DEF AppPayload, TypeOK
    <3> QED BY <3>1, <3>2
  <2> QED BY <1>1, <2>1, <2>2 DEF AppPayload, Local, outcome, backoffVars, marks
<1>2. CASE IdleRetry(n)
  <2>1. inbox'[m] = inbox[m]
    BY <1>2 DEF IdleRetry, TypeOK
  <2>2. /\ sending'[m] = sending[m] /\ txInfo'[m] = txInfo[m] /\ sent'[m] = sent[m]
        /\ txBuff'[m] = txBuff[m] /\ inIdle'[m] = inIdle[m]
        /\ abandoned'[m] = abandoned[m]
    <3>1. CASE LimitReached(Head(inbox[n]).info)
      <4>1. /\ BecomeIdle(n)
            /\ abandoned' = [abandoned EXCEPT ![n] = @ \union {sending[n].frame}]
        BY <1>2, <3>1 DEF IdleRetry
      <4>2. abandoned'[m] = abandoned[m]
        BY <4>1 DEF TypeOK
      <4> QED BY <4>1, <4>2, SendsAlone
    <3>2. CASE ~LimitReached(Head(inbox[n]).info)
      <4>1. UNCHANGED <<inIdle, txBuff, abandoned>> /\ \E info : DataOut(n, info)
        BY <1>2, <3>2 DEF IdleRetry
      <4> QED BY <4>1, SendsAlone
    <3> QED BY <3>1, <3>2
  <2> QED BY <1>2, <2>1, <2>2 DEF IdleRetry, Local, backoffVars, marks
<1>3. CASE IdleAck(n)
  <2>1. inbox'[m] = inbox[m] /\ succeeded'[m] = succeeded[m] /\ doubled'[m] = doubled[m]
    BY <1>3 DEF IdleAck, TypeOK
  <2>2. BecomeIdle(n)
    BY <1>3 DEF IdleAck
  <2> QED BY <1>3, <2>1, <2>2, SendsAlone DEF IdleAck, Local, backoffVars, marks
<1>4. CASE ReceiveData(n)
  BY <1>4 DEF ReceiveData, TypeOK, Local, outcome, backoffVars, timeoutVars
<1>5. CASE ReceiveAck(n)
  <2>1. /\ ackTimer'[m] = ackTimer[m] /\ inbox'[m] = inbox[m]
        /\ crossed'[m] = crossed[m]
    <3>1. CASE Matches(n, Head(air[n]))
      <4>1. /\ \E t : ackTimer' = [ackTimer EXCEPT ![n] = t]
            /\ \E q : inbox' = [inbox EXCEPT ![n] = q]
            /\ \E k : crossed' = [crossed EXCEPT ![n] = k]
        BY <1>5, <3>1, Zenon DEF ReceiveAck
      <4> QED BY <4>1 DEF TypeOK
    <3>2. CASE ~Matches(n, Head(air[n]))
      BY <1>5, <3>2 DEF ReceiveAck
    <3> QED BY <3>1, <3>2
  <2> QED BY <1>5, <2>1 DEF ReceiveAck, Local, outcome, backoffVars
<1>6. CASE Lose(n)
  BY <1>6 DEF Lose, Local, outcome, backoffVars, timeoutVars, idleVars, marks
<1>7. CASE StartTimeout(n)
  <2>1. /\ txInfo'[m] = txInfo[m] /\ ackTimer'[m] = ackTimer[m]
        /\ hurried'[m] = hurried[m]
    BY <1>7 DEF StartTimeout, TypeOK
  <2> QED BY <1>7, <2>1 DEF StartTimeout, Local, outcome, backoffVars, idleVars
<1>8. CASE Timer(n)
  <2>1. ackTimer'[m] = ackTimer[m] /\ backoffIn'[m] = backoffIn[m]
    BY <1>8 DEF Timer, TimerDecides, TimerPublishes, TimerEnds, TypeOK, backoffVars
  <2> QED BY <1>8, <2>1 DEF Timer, TimerDecides, TimerPublishes, TimerEnds, Local,
                            backoffVars, outcome, idleVars, marks
<1>9. CASE Backoff(n)
  <2>1. /\ inbox'[m] = inbox[m] /\ backoffs'[m] = backoffs[m]
        /\ backoffIn'[m] = backoffIn[m] /\ backoffInfo'[m] = backoffInfo[m]
    <3>1. StartBackoff(n) => inbox' = inbox
      BY DEF StartBackoff, idleVars
    <3>2. BackoffEnds(n) => UNCHANGED <<backoffIn, backoffInfo>>
      BY DEF BackoffEnds
    <3> QED BY <1>9, <3>1, <3>2 DEF Backoff, StartBackoff, BackoffEnds, TypeOK
  <2> QED BY <1>9, <2>1 DEF Backoff, StartBackoff, BackoffEnds, Local, outcome,
                            timeoutVars, idleVars, marks
<1> QED BY <1>1, <1>2, <1>3, <1>4, <1>5, <1>6, <1>7, <1>8, <1>9
        DEF Acts, Works, Idle

\* What holds of a station's own state goes on holding.
LEMMA NodeKept ==
    ASSUME NEW n \in Node, Local(n)' = Local(n), NodeInv(n)
    PROVE  NodeInv(n)'
<1>1. /\ inIdle'[n] = inIdle[n] /\ txBuff'[n] = txBuff[n] /\ sending'[n] = sending[n]
      /\ inbox'[n] = inbox[n] /\ txInfo'[n] = txInfo[n] /\ ackTimer'[n] = ackTimer[n]
      /\ backoffIn'[n] = backoffIn[n]
      /\ backoffs'[n] = backoffs[n] /\ backoffInfo'[n] = backoffInfo[n]
      /\ offered'[n] = offered[n] /\ sent'[n] = sent[n] /\ received'[n] = received[n]
      /\ succeeded'[n] = succeeded[n] /\ doubled'[n] = doubled[n]
      /\ abandoned'[n] = abandoned[n] /\ hurried'[n] = hurried[n]
      /\ crossed'[n] = crossed[n] /\ stolen'[n] = stolen[n]
  BY DEF Local
<1>2. BaseInv(n)'
  BY <1>1 DEF BaseInv, StartedInv, BufferInv, NodeInv
<1>3. CountInv(n)'
  BY <1>1 DEF CountInv, Turns, NodeInv
<1>4. TurnInv(n)' = TurnInv(n)
  BY <1>1, Zenon DEF TurnInv, Pending, Verdict
<1>5. /\ VerdictInv(n)' = VerdictInv(n) /\ SentInv(n)' = SentInv(n)
      /\ Orderly(n)' = Orderly(n)
  BY <1>1, Zenon DEF VerdictInv, SentInv, Orderly
<1> QED BY <1>2, <1>3, <1>4, <1>5 DEF NodeInv, OrderlyInv

-----------------------------------------------------------------------------
(* What idle sends. *)

\* What a transmission does to its sender.
LEMMA Sends ==
    ASSUME TypeOK, NEW n \in Node, NEW info \in Info, info.frame \in Payload,
           DataOut(n, info)
    PROVE  /\ sending'[n] = info /\ txInfo'[n] = Append(txInfo[n], info)
           /\ sent'[n][info.frame] = sent[n][info.frame] + 1
           /\ \A i \in Payload : i # info.frame => sent'[n][i] = sent[n][i]
<1>1. sending'[n] = info
  BY DEF DataOut, TypeOK
<1>2. txInfo'[n] = Append(txInfo[n], info)
  BY DEF DataOut, TypeOK
<1>3. sent'[n] = [sent[n] EXCEPT ![info.frame] = @ + 1]
  BY DEF DataOut, TypeOK
<1>4. sent[n] \in [Payload -> Nat]
  BY LocalTypes
<1> QED BY <1>1, <1>2, <1>3, <1>4

\* The next frame is sent for the first time; or idle waits for one.
NextSent(n) ==
    \E info \in Info :
        /\ info.frame = sending[n].frame + 1 /\ info.frame \in Payload
        /\ info.num = 1
        /\ DataOut(n, info)
        /\ inIdle' = [inIdle EXCEPT ![n] = FALSE]

Idled(n) ==
    /\ inIdle' = [inIdle EXCEPT ![n] = TRUE]
    /\ UNCHANGED <<txBuff, sending, air, txInfo, sent>>

\* The first of the buffered frames is the next one.
LEMMA SendsNext ==
    ASSUME TypeOK, NEW n \in Node, NEW q \in Seq(Payload), q # <<>>, SendNext(n, q),
           \A j \in 1 .. Len(q) : q[j] = sending[n].frame + j,
           offered'[n] = sending[n].frame + Len(q),
           BufferInv(n)
    PROVE  NextSent(n) /\ BufferInv(n)' /\ txBuff' \in [Node -> Seq(Payload)]
<1> DEFINE info == [frame |-> Head(q), num |-> 1]
           i0 == sending[n].frame
<1>1. /\ Head(q) \in Payload /\ Head(q) = q[1] /\ 1 \in 1 .. Len(q) /\ Len(q) \in Nat
      /\ Tail(q) \in Seq(Payload) /\ Len(Tail(q)) = Len(q) - 1
      /\ \A j \in 1 .. Len(Tail(q)) : Tail(q)[j] = q[j + 1]
  BY HeadTailProperties, EmptySeq
<1>2. i0 \in Nat
  BY LocalTypes
<1>3. Head(q) = i0 + 1
  BY <1>1
<1>4. /\ DataOut(n, info) /\ txBuff'[n] = Tail(q)
      /\ inIdle' = [inIdle EXCEPT ![n] = FALSE]
      /\ txBuff' \in [Node -> Seq(Payload)]
  BY <1>1 DEF SendNext, TypeOK
<1>5. info.frame = i0 + 1 /\ info.frame \in Payload /\ info.num = 1 /\ info \in Info
  BY <1>1, <1>3, LimitAssumption, BoundsAssumption DEF Info, Payload
<1> HIDE DEF info, i0
<1>6. /\ sending'[n] = info
      /\ \A i \in Payload : i # info.frame => sent'[n][i] = sent[n][i]
  BY <1>4, <1>5, Sends
<1>7. BufferInv(n)'
  <2>1. offered'[n] = sending'[n].frame + Len(txBuff'[n])
    BY <1>1, <1>2, <1>4, <1>5, <1>6 DEF i0
  <2>2. ASSUME NEW j \in 1 .. Len(txBuff'[n]) PROVE txBuff'[n][j] = sending'[n].frame + j
    <3>1. j \in 1 .. Len(Tail(q)) /\ j + 1 \in 1 .. Len(q)
      BY <1>1, <1>4
    <3>2. txBuff'[n][j] = i0 + (j + 1)
      BY <1>1, <1>4, <3>1 DEF i0
    <3> QED BY <1>2, <1>5, <1>6, <3>1, <3>2
  <2>3. \A i \in Payload : i > sending'[n].frame => sent'[n][i] = 0
    BY <1>2, <1>5, <1>6 DEF Payload, BufferInv, i0
  <2> QED BY <2>1, <2>2, <2>3 DEF BufferInv
<1> QED BY <1>4, <1>5, <1>7 DEF NextSent, i0

\* idle sends the next frame, or waits for one.
LEMMA NextOrIdle ==
    ASSUME TypeOK, NEW n \in Node, BecomeIdle(n), BufferInv(n), UNCHANGED offered
    PROVE  /\ NextSent(n) \/ Idled(n)
           /\ BufferInv(n)' /\ txBuff' \in [Node -> Seq(Payload)]
<1>1. CASE txBuff[n] # <<>>
  <2>1. SendNext(n, txBuff[n])
    BY <1>1 DEF BecomeIdle
  <2>2. /\ txBuff[n] \in Seq(Payload)
        /\ \A j \in 1 .. Len(txBuff[n]) : txBuff[n][j] = sending[n].frame + j
        /\ offered'[n] = sending[n].frame + Len(txBuff[n])
    BY LocalTypes DEF BufferInv
  <2> QED BY <1>1, <2>1, <2>2, SendsNext
<1>2. CASE txBuff[n] = <<>>
  <2>1. Idled(n)
    BY <1>2 DEF BecomeIdle, Idled
  <2>2. BufferInv(n)' /\ txBuff' \in [Node -> Seq(Payload)]
    BY <2>1 DEF BufferInv, Idled, TypeOK
  <2> QED BY <2>1, <2>2
<1> QED BY <1>1, <1>2

\* A payload of the application is sent or buffered.
LEMMA PayloadMoves ==
    ASSUME TypeOK, NEW n \in Node, BufferInv(n), AppPayload(n)
    PROVE  /\ \/ MaySend(n) /\ NextSent(n)
              \/ UNCHANGED <<inIdle, sending, air, txInfo, sent>>
           /\ BufferInv(n)' /\ txBuff' \in [Node -> Seq(Payload)]
           /\ offered' \in [Node -> 0 .. MaxFrames]
<1> DEFINE b == txBuff[n]
           q == Append(b, offered[n] + 1)
           i0 == sending[n].frame
<1>1. /\ offered[n] \in Nat /\ i0 \in Nat /\ b \in Seq(Payload) /\ Len(b) \in Nat
      /\ offered[n] = i0 + Len(b) /\ \A j \in 1 .. Len(b) : b[j] = i0 + j
      /\ offered[n] + 1 \in Payload /\ offered[n] + 1 \in 0 .. MaxFrames
  <2>1. offered[n] < Offers[n] /\ Offers[n] \in Nat /\ Offers[n] <= MaxFrames
    BY OffersAssumption, BoundsAssumption DEF AppPayload
  <2>2. offered[n] \in Nat
    BY LocalTypes
  <2> QED BY <2>1, <2>2, LocalTypes, BoundsAssumption DEF BufferInv, Payload
<1>2. /\ offered'[n] = offered[n] + 1
      /\ offered' \in [Node -> 0 .. MaxFrames]
      /\ \/ MaySend(n) /\ SendNext(n, q)
         \/ /\ ~MaySend(n) /\ txBuff' = [txBuff EXCEPT ![n] = q]
            /\ UNCHANGED <<inIdle, sending, air, txInfo, sent>>
  BY <1>1 DEF AppPayload, TypeOK
<1>3. /\ q \in Seq(Payload) /\ Len(q) = Len(b) + 1 /\ q # <<>>
      /\ \A j \in 1 .. Len(q) : q[j] = i0 + j
  <2>1. /\ q \in Seq(Payload) /\ Len(q) = Len(b) + 1
        /\ \A j \in 1 .. Len(b) : q[j] = b[j]
        /\ q[Len(b) + 1] = offered[n] + 1
    BY <1>1, AppendProperties
  <2> HIDE DEF q, b, i0
  <2>2. \A j \in 1 .. Len(q) : j \in 1 .. Len(b) \/ j = Len(b) + 1
    BY <1>1, <2>1
  <2>3. \A j \in 1 .. Len(q) : q[j] = i0 + j
    BY <1>1, <2>1, <2>2
  <2>4. q # <<>>
    BY <1>1, <2>1
  <2> QED BY <2>1, <2>3, <2>4
<1>4. offered'[n] = i0 + Len(q)
  BY <1>1, <1>2, <1>3
<1> HIDE DEF q, b
<1>5. CASE MaySend(n) /\ SendNext(n, q)
  BY <1>2, <1>3, <1>4, <1>5, SendsNext
<1>6. CASE /\ txBuff' = [txBuff EXCEPT ![n] = q]
           /\ UNCHANGED <<inIdle, sending, air, txInfo, sent>>
  <2>1. txBuff'[n] = q /\ txBuff' \in [Node -> Seq(Payload)]
    BY <1>3, <1>6 DEF TypeOK
  <2>2. BufferInv(n)'
    BY <1>3, <1>4, <1>6, <2>1 DEF BufferInv
  <2> QED BY <1>2, <1>6, <2>1, <2>2
<1> QED BY <1>2, <1>5, <1>6

\* A frame that timed out is sent once more or given up.
LEMMA RetryMoves ==
    ASSUME TypeOK, NEW n \in Node, BaseInv(n), IdleRetry(n)
    PROVE  /\ inbox[n] # <<>> /\ Head(inbox[n]) \in Inbox
           /\ Head(inbox[n]).type = "data"
           /\ inbox'[n] = Tail(inbox[n]) /\ inbox' \in [Node -> Seq(Inbox)]
           /\ sending[n].frame \in Payload
           /\ \/ /\ abandoned' = [abandoned EXCEPT ![n] = @ \union {sending[n].frame}]
                 /\ NextSent(n) \/ Idled(n)
              \/ /\ \E info \in Info :
                       /\ info.frame = sending[n].frame
                       /\ info.num = Head(inbox[n]).info.num + 1
                       /\ DataOut(n, info)
                 /\ UNCHANGED <<inIdle, txBuff, abandoned>>
           /\ BufferInv(n)' /\ txBuff' \in [Node -> Seq(Payload)]
<1>1. /\ inbox[n] # <<>> /\ inbox' = [inbox EXCEPT ![n] = Tail(@)]
      /\ Head(inbox[n]).type = "data" /\ UNCHANGED offered
      /\ \/ /\ abandoned' = [abandoned EXCEPT ![n] = @ \union {sending[n].frame}]
            /\ BecomeIdle(n)
         \/ /\ ~LimitReached(Head(inbox[n]).info)
            /\ DataOut(n, [sending[n] EXCEPT !.num = Head(inbox[n]).info.num + 1])
            /\ UNCHANGED <<inIdle, txBuff, abandoned>>
  BY DEF IdleRetry
<1>2. /\ inbox[n] \in Seq(Inbox) /\ inbox \in [Node -> Seq(Inbox)]
      /\ Head(inbox[n]) \in Inbox /\ Tail(inbox[n]) \in Seq(Inbox)
  BY <1>1, GlobalTypes, HeadTailProperties
<1>3. inbox'[n] = Tail(inbox[n]) /\ inbox' \in [Node -> Seq(Inbox)]
  BY <1>1, <1>2
<1>4. sending[n] \in Info /\ sending[n].frame \in Payload /\ BufferInv(n)
  BY <1>1, LocalTypes, BoundsAssumption DEF BaseInv, StartedInv, Info, Payload
<1>5. CASE /\ abandoned' = [abandoned EXCEPT ![n] = @ \union {sending[n].frame}]
           /\ BecomeIdle(n)
  BY <1>1, <1>2, <1>3, <1>4, <1>5, NextOrIdle
<1>6. CASE /\ ~LimitReached(Head(inbox[n]).info)
           /\ DataOut(n, [sending[n] EXCEPT !.num = Head(inbox[n]).info.num + 1])
           /\ UNCHANGED <<inIdle, txBuff, abandoned>>
  <2>1. PICK info : info = [sending[n] EXCEPT !.num = Head(inbox[n]).info.num + 1]
    OBVIOUS
  <2>2. Head(inbox[n]).info.num + 1 \in 0 .. MaxTransmissions
    <3>1. Head(inbox[n]).info \in Info
      BY <1>2 DEF Inbox
    <3> QED BY <1>6, <3>1, LimitAssumption DEF Info, LimitReached
  <2>3. /\ info.frame = sending[n].frame /\ info.num = Head(inbox[n]).info.num + 1
        /\ info \in Info /\ DataOut(n, info)
    BY <1>4, <1>6, <2>1, <2>2 DEF Info
  <2>4. /\ sending'[n] = info
        /\ \A i \in Payload : i # info.frame => sent'[n][i] = sent[n][i]
    BY <1>4, <2>3, Sends
  <2>5. BufferInv(n)'
    <3>1. \A i \in Payload : i > sending'[n].frame => sent'[n][i] = 0
      BY <1>4, <2>3, <2>4 DEF BufferInv, Payload
    <3> QED BY <1>1, <1>4, <1>6, <2>3, <2>4, <3>1 DEF BufferInv
  <2> QED BY <1>1, <1>2, <1>3, <1>4, <1>6, <2>3, <2>5 DEF TypeOK
<1> QED BY <1>1, <1>5, <1>6

\* A frame is counted as successful, and the next one has its turn.
LEMMA AckMoves ==
    ASSUME TypeOK, NEW n \in Node, BaseInv(n), IdleAck(n)
    PROVE  /\ inbox[n] # <<>> /\ Head(inbox[n]).type = "ack"
           /\ inbox'[n] = Tail(inbox[n]) /\ inbox' \in [Node -> Seq(Inbox)]
           /\ sending[n].frame \in Payload
           /\ NextSent(n) \/ Idled(n)
           /\ BufferInv(n)' /\ txBuff' \in [Node -> Seq(Payload)]
<1>1. /\ inbox[n] # <<>> /\ inbox' = [inbox EXCEPT ![n] = Tail(@)]
      /\ Head(inbox[n]).type = "ack" /\ UNCHANGED offered /\ BecomeIdle(n)
  BY DEF IdleAck
<1>2. inbox \in [Node -> Seq(Inbox)] /\ Tail(inbox[n]) \in Seq(Inbox)
  BY <1>1, GlobalTypes, HeadTailProperties
<1>3. inbox'[n] = Tail(inbox[n]) /\ inbox' \in [Node -> Seq(Inbox)]
  BY <1>1, <1>2
<1>4. sending[n] \in Info /\ sending[n].frame \in Payload /\ BufferInv(n)
  BY <1>1, LocalTypes, BoundsAssumption DEF BaseInv, StartedInv, Info, Payload
<1> QED BY <1>1, <1>3, <1>4, NextOrIdle

\* Frames are sent in the order of their numbers.
LEMMA BaseStep ==
    ASSUME TypeOK, NEW n \in Node, Acts(n), BaseInv(n)
    PROVE  BaseInv(n)' /\ sending'[n].frame >= sending[n].frame
<1>1. /\ BufferInv(n) /\ StartedInv(n) /\ sending[n].frame \in Nat
      /\ sent[n] \in [Payload -> Nat]
  BY LocalTypes DEF BaseInv
<1>2. NextSent(n) => sending'[n].frame = sending[n].frame + 1
  BY Sends DEF NextSent
<1>3. Idled(n) => sending' = sending
  BY DEF Idled
<1>4. CASE AppPayload(n)
  <2>1. CASE NextSent(n)
    <3>1. sending'[n].frame >= sending[n].frame /\ sending'[n].frame # 0
      BY <1>1, <1>2, <2>1
    <3> QED BY <1>1, <1>4, <3>1, PayloadMoves DEF BaseInv, StartedInv
  <2>2. CASE UNCHANGED <<inIdle, sending, air, txInfo, sent>>
    <3>1. StartedInv(n)'
      BY <1>1, <1>4, <2>2 DEF AppPayload, StartedInv, backoffVars
    <3> QED BY <1>1, <1>4, <2>2, <3>1, PayloadMoves DEF BaseInv
  <2> QED BY <1>1, <1>4, <2>1, <2>2, PayloadMoves
<1>5. CASE Idle(n)
  <2>1. /\ sending[n].frame \in Payload /\ BufferInv(n)'
        /\ \/ NextSent(n) \/ Idled(n)
           \/ \E info \in Info : info.frame = sending[n].frame /\ DataOut(n, info)
    BY <1>5, RetryMoves, AckMoves DEF Idle
  <2>2. sending'[n].frame >= sending[n].frame
    BY <1>1, <1>2, <1>3, <2>1, Sends
  <2>3. sending'[n].frame # 0
    BY <1>1, <1>2, <1>3, <2>1, Sends DEF Payload
  <2> QED BY <2>1, <2>2, <2>3 DEF BaseInv, StartedInv
<1>6. CASE ~AppPayload(n) /\ ~Idle(n)
  <2>1. UNCHANGED <<txBuff, sending, offered, sent>>
    BY <1>6 DEF Acts, Works, Timer, Backoff, ReceiveData, ReceiveAck, Lose, StartTimeout,
                TimerDecides, TimerPublishes, TimerEnds, StartBackoff, BackoffEnds, idleVars
  <2>2. BufferInv(n)'
    BY <1>1, <2>1 DEF BufferInv
  <2>3. StartedInv(n)'
    <3> SUFFICES ASSUME sending[n].frame = 0
                 PROVE  UNCHANGED <<txInfo, ackTimer, backoffIn, backoffs, inbox>>
      BY <1>1, <2>1 DEF StartedInv
    <3>1. /\ txInfo[n] = <<>> /\ ~ackTimer[n].set /\ ~Alive(ackTimer[n])
          /\ backoffIn[n] = <<>> /\ backoffs[n] = 0
      BY <1>1 DEF StartedInv
    <3>2. ~StartTimeout(n) /\ ~Backoff(n)
      BY <3>1 DEF StartTimeout, Backoff, StartBackoff, BackoffEnds
    <3>3. ~Timer(n)
      <4>1. ackTimer[n] \in Timers(Info)
        BY LocalTypes
      <4>2. /\ ackTimer[n].counting = 0 /\ ackTimer[n].due = 0
            /\ ackTimer[n].ending = 0
        BY <3>1, <4>1 DEF Alive, Timers
      <4> QED BY <4>2 DEF Timer, TimerDecides, TimerPublishes, TimerEnds
    <3>4. CASE ReceiveData(n) \/ Lose(n)
      BY <3>4 DEF ReceiveData, Lose, timeoutVars, backoffVars, idleVars
    <3>5. CASE ReceiveAck(n)
      <4>1. ~Matches(n, Head(air[n]))
        BY <3>1 DEF Matches
      <4> QED BY <3>5, <4>1 DEF ReceiveAck, backoffVars
    <3> QED BY <1>6, <3>2, <3>3, <3>4, <3>5 DEF Acts, Works
  <2> QED BY <1>1, <2>1, <2>2, <2>3 DEF BaseInv
<1> QED BY <1>4, <1>5, <1>6

-----------------------------------------------------------------------------
(* Type correctness. *)

\* What the radio carries.
LEMMA AirTyped ==
    /\ \A i \in Payload : DataOnAir(i) \in AirFrame
    /\ \A f \in AirFrame : AckOnAir(f) \in AirFrame
    /\ \A q \in Seq(AirFrame), f \in AirFrame : OnAir(q, f) \in Seq(AirFrame)
    /\ \A q \in Seq(AirFrame) :
          q # <<>> => Head(q) \in AirFrame /\ Tail(q) \in Seq(AirFrame)
<1>1. ASSUME NEW i \in Payload PROVE DataOnAir(i) \in AirFrame
  <2>1. i % IndexMod \in 0 .. IndexMod - 1
    BY IndexAssumption, BoundsAssumption DEF Payload
  <2> QED BY <2>1 DEF DataOnAir, AirFrame
<1>2. \A f \in AirFrame : AckOnAir(f) \in AirFrame
  BY DEF AckOnAir, AirFrame
<1>3. \A q \in Seq(AirFrame), f \in AirFrame : OnAir(q, f) \in Seq(AirFrame)
  BY AppendProperties DEF OnAir
<1>4. \A q \in Seq(AirFrame) :
        q # <<>> => Head(q) \in AirFrame /\ Tail(q) \in Seq(AirFrame)
  BY HeadTailProperties
<1> QED BY <1>1, <1>2, <1>3, <1>4

SendTypes ==
    /\ sending \in [Node -> Info] /\ air \in [Node -> Seq(AirFrame)]
    /\ txInfo \in [Node -> Seq(Info)] /\ sent \in [Node -> [Payload -> Nat]]

\* A frame is sent.
LEMMA SendTyped ==
    ASSUME TypeOK, NEW n \in Node, NEW info \in Info, info.frame \in Payload,
           DataOut(n, info)
    PROVE  SendTypes'
<1>1. sending' \in [Node -> Info]
  BY DEF DataOut, TypeOK
<1>2. air' \in [Node -> Seq(AirFrame)]
  <2>1. OnAir(air[Peer(n)], DataOnAir(info.frame)) \in Seq(AirFrame)
    BY GlobalTypes, AirTyped, PeerIsNode
  <2> QED BY <2>1, GlobalTypes DEF DataOut
<1>3. txInfo' \in [Node -> Seq(Info)]
  <2>1. Append(txInfo[n], info) \in Seq(Info)
    BY LocalTypes, AppendProperties
  <2> QED BY <2>1 DEF DataOut, TypeOK
<1>4. sent' \in [Node -> [Payload -> Nat]]
  <2>1. sent' = [sent EXCEPT ![n] = [sent[n] EXCEPT ![info.frame] = sent[n][info.frame] + 1]]
    BY DEF DataOut, TypeOK
  <2>2. [sent[n] EXCEPT ![info.frame] = sent[n][info.frame] + 1] \in [Payload -> Nat]
    BY LocalTypes
  <2> QED BY <2>1, <2>2 DEF TypeOK
<1> QED BY <1>1, <1>2, <1>3, <1>4 DEF SendTypes

\* So is the next one, or none.
LEMMA NextTyped ==
    ASSUME TypeOK, NEW n \in Node
    PROVE  /\ NextSent(n) => SendTypes' /\ inIdle' \in [Node -> BOOLEAN]
           /\ Idled(n) => SendTypes' /\ inIdle' \in [Node -> BOOLEAN]
<1>1. NextSent(n) => SendTypes' /\ inIdle' \in [Node -> BOOLEAN]
  BY SendTyped DEF NextSent, TypeOK
<1>2. Idled(n) => SendTypes' /\ inIdle' \in [Node -> BOOLEAN]
  BY GlobalTypes DEF Idled, SendTypes, TypeOK
<1> QED BY <1>1, <1>2

\* Every step of a station keeps all values in their types.
LEMMA TypeStep ==
    ASSUME TypeOK, NEW n \in Node, BaseInv(n), Acts(n)
    PROVE  TypeOK'
<1>1. inbox \in [Node -> Seq(Inbox)] /\ air \in [Node -> Seq(AirFrame)]
  BY GlobalTypes
<1>2. CASE AppPayload(n)
  <2>1. SendTypes' /\ inIdle' \in [Node -> BOOLEAN]
    <3>1. CASE NextSent(n)
      BY <3>1, NextTyped
    <3>2. CASE UNCHANGED <<inIdle, sending, air, txInfo, sent>>
      BY <1>1, <3>2 DEF SendTypes, TypeOK
    <3> QED BY <1>2, <3>1, <3>2, PayloadMoves DEF BaseInv
  <2>2. txBuff' \in [Node -> Seq(Payload)] /\ offered' \in [Node -> 0 .. MaxFrames]
    BY <1>2, PayloadMoves DEF BaseInv
  <2> QED BY <1>2, <2>1, <2>2
          DEF AppPayload, SendTypes, AirFrame, TypeOK, outcome, backoffVars, marks
<1>3. CASE IdleRetry(n)
  <2>1. SendTypes' /\ inIdle' \in [Node -> BOOLEAN]
        /\ abandoned' \in [Node -> SUBSET Payload]
    <3>1. CASE /\ abandoned' = [abandoned EXCEPT ![n] = @ \union {sending[n].frame}]
               /\ NextSent(n) \/ Idled(n)
      <4>1. sending[n].frame \in Payload
        BY <1>3, RetryMoves
      <4> QED BY <3>1, <4>1, NextTyped DEF TypeOK
    <3>2. CASE /\ \E info \in Info :
                     info.frame = sending[n].frame /\ DataOut(n, info)
               /\ UNCHANGED <<inIdle, txBuff, abandoned>>
      <4>1. sending[n].frame \in Payload
        BY <1>3, RetryMoves
      <4> QED BY <3>2, <4>1, SendTyped DEF TypeOK
    <3> QED BY <1>3, <3>1, <3>2, RetryMoves
  <2>2. txBuff' \in [Node -> Seq(Payload)] /\ inbox' \in [Node -> Seq(Inbox)]
    BY <1>3, RetryMoves
  <2> QED BY <1>3, <2>1, <2>2
          DEF IdleRetry, SendTypes, AirFrame, Inbox, TypeOK, backoffVars, marks
<1>4. CASE IdleAck(n)
  <2>1. SendTypes' /\ inIdle' \in [Node -> BOOLEAN]
    BY <1>4, AckMoves, NextTyped
  <2>2. txBuff' \in [Node -> Seq(Payload)] /\ inbox' \in [Node -> Seq(Inbox)]
    BY <1>4, AckMoves
  <2>3. succeeded' \in [Node -> SUBSET Payload] /\ doubled' \in [Node -> BOOLEAN]
    <3>1. sending[n].frame \in Payload
      BY <1>4, AckMoves
    <3>2. (doubled[n] \/ sending[n].frame \in succeeded[n]) \in BOOLEAN
      OBVIOUS
    <3> QED BY <1>4, <3>1, <3>2 DEF IdleAck, TypeOK
  <2> QED BY <1>4, <2>1, <2>2, <2>3
          DEF IdleAck, SendTypes, AirFrame, Inbox, TypeOK, backoffVars, marks
<1>5. CASE ReceiveData(n)
  <2>1. /\ Head(air[n]) \in AirFrame /\ Tail(air[n]) \in Seq(AirFrame)
        /\ OnAir(air[Peer(n)], AckOnAir(Head(air[n]))) \in Seq(AirFrame)
        /\ OnAir(Tail(air[n]), AckOnAir(Head(air[n]))) \in Seq(AirFrame)
    BY <1>1, <1>5, AirTyped, PeerIsNode DEF ReceiveData
  <2>2. air' \in [Node -> Seq(AirFrame)]
    BY <1>1, <1>5, <2>1, PeerIsNode DEF ReceiveData
  <2>3. received' \in [Node -> SUBSET Payload] /\ inIdle' \in [Node -> BOOLEAN]
    BY <1>5, <2>1 DEF ReceiveData, TypeOK, AirFrame
  <2>4. stolen' \in [Node -> BOOLEAN]
    <3>1. (stolen[n] \/ inIdle[n]) \in BOOLEAN
      OBVIOUS
    <3> QED BY <1>5, <3>1 DEF ReceiveData, TypeOK
  <2> QED BY <1>5, <2>2, <2>3, <2>4
          DEF ReceiveData, TypeOK, AirFrame, outcome, timeoutVars, backoffVars
<1>6. CASE ReceiveAck(n)
  <2>1. air' \in [Node -> Seq(AirFrame)]
    <3>1. Tail(air[n]) \in Seq(AirFrame)
      BY <1>1, <1>6, AirTyped DEF ReceiveAck
    <3> QED BY <1>1, <1>6, <3>1 DEF ReceiveAck
  <2>2. /\ inbox' \in [Node -> Seq(Inbox)] /\ ackTimer' \in [Node -> Timers(Info)]
        /\ crossed' \in [Node -> Nat] /\ missed' \in BOOLEAN
    <3>1. CASE Matches(n, Head(air[n]))
      <4>1. [type |-> "ack", info |-> ackTimer[n].waiting] \in Inbox
        BY LocalTypes DEF Inbox, Timers
      <4>2. Append(inbox[n], [type |-> "ack", info |-> ackTimer[n].waiting]) \in Seq(Inbox)
        BY <1>1, <4>1, AppendProperties
      <4>3. Killed(ackTimer[n]) \in Timers(Info)
        BY LocalTypes, TimerKilled
      <4>4. crossed[n] + Bit(Past(ackTimer[n])) \in Nat
        BY LocalTypes DEF Bit
      <4>5. inbox' \in [Node -> Seq(Inbox)]
        BY <1>1, <1>6, <3>1, <4>2 DEF ReceiveAck
      <4>6. ackTimer' = [ackTimer EXCEPT ![n] = Killed(ackTimer[n])]
        BY <1>6, <3>1 DEF ReceiveAck
      <4>7. crossed' = [crossed EXCEPT ![n] = crossed[n] + Bit(Past(ackTimer[n]))]
        BY <1>6, <3>1 DEF ReceiveAck
      <4>8. missed' = missed
        BY <1>6, <3>1 DEF ReceiveAck
      <4> QED BY <4>3, <4>4, <4>5, <4>6, <4>7, <4>8 DEF TypeOK
    <3>2. CASE ~Matches(n, Head(air[n]))
      BY <1>1, <1>6, <3>2 DEF ReceiveAck, TypeOK
    <3> QED BY <3>1, <3>2
  <2> QED BY <1>6, <2>1, <2>2 DEF ReceiveAck, TypeOK, AirFrame, Inbox, outcome, backoffVars
<1>7. CASE Lose(n)
  <2>1. air' \in [Node -> Seq(AirFrame)]
    <3>1. Tail(air[n]) \in Seq(AirFrame)
      BY <1>1, <1>7, AirTyped DEF Lose
    <3> QED BY <1>1, <1>7, <3>1 DEF Lose
  <2> QED BY <1>7, <2>1
          DEF Lose, TypeOK, AirFrame, outcome, backoffVars, timeoutVars, idleVars, marks
<1>8. CASE StartTimeout(n)
  <2>1. Tail(txInfo[n]) \in Seq(Info) /\ Head(txInfo[n]) \in Info
    BY <1>8, LocalTypes, HeadTailProperties DEF StartTimeout
  <2>2. Started(ackTimer[n], Head(txInfo[n])) \in Timers(Info)
    BY <2>1, LocalTypes, TimerStarted
  <2>3. (hurried[n] \/ Alive(ackTimer[n])) \in BOOLEAN
    OBVIOUS
  <2>4. /\ txInfo' \in [Node -> Seq(Info)] /\ ackTimer' \in [Node -> Timers(Info)]
        /\ hurried' \in [Node -> BOOLEAN]
    BY <1>8, <2>1, <2>2, <2>3 DEF StartTimeout, TypeOK
  <2> QED BY <1>8, <2>4 DEF StartTimeout, TypeOK, outcome, backoffVars, idleVars
<1>9. CASE Timer(n)
  <2> DEFINE t == ackTimer[n]
  <2>1. t \in Timers(Info) /\ t.waiting \in Info
    BY LocalTypes DEF Timers
  <2>2. /\ ackTimer' \in [Node -> Timers(Info)]
        /\ backoffIn' \in [Node -> Seq(Info)]
    <3>1. CASE TimerDecides(n)
      <4>1. Decided(t) \in Timers(Info)
        BY <2>1, <3>1, TimerRuns DEF TimerDecides
      <4> QED BY <3>1, <4>1 DEF TimerDecides, TypeOK, backoffVars
    <3>2. CASE TimerPublishes(n)
      <4>1. Told(t) \in Timers(Info)
        BY <2>1, <3>2, TimerRuns DEF TimerPublishes
      <4>2. Append(backoffIn[n], t.waiting) \in Seq(Info)
        BY <2>1, LocalTypes, AppendProperties
      <4> QED BY <3>2, <4>1, <4>2 DEF TimerPublishes, TypeOK
    <3>3. CASE TimerEnds(n)
      <4>1. Ended(t) \in Timers(Info)
        BY <2>1, <3>3, TimerRuns DEF TimerEnds
      <4>2. ackTimer' = [ackTimer EXCEPT ![n] = Ended(t)] /\ backoffIn' = backoffIn
        BY <3>3 DEF TimerEnds, backoffVars
      <4> QED BY <4>1, <4>2 DEF TypeOK
    <3> QED BY <1>9, <3>1, <3>2, <3>3 DEF Timer
  <2>3. /\ UNCHANGED <<idleVars, txInfo, backoffs, backoffInfo, air, offered, sent>>
        /\ UNCHANGED <<received, outcome, marks>>
    BY <1>9 DEF Timer, TimerDecides, TimerPublishes, TimerEnds, backoffVars
  <2> QED BY <2>2, <2>3 DEF TypeOK, outcome, idleVars, marks
<1>10. CASE StartBackoff(n)
  <2>1. Tail(backoffIn[n]) \in Seq(Info) /\ Head(backoffIn[n]) \in Info
    BY <1>10, LocalTypes, HeadTailProperties DEF StartBackoff
  <2>2. /\ backoffIn' \in [Node -> Seq(Info)] /\ backoffs' \in [Node -> Nat]
        /\ backoffInfo' \in [Node -> Info]
    BY <1>10, <2>1 DEF StartBackoff, TypeOK
  <2>3. /\ UNCHANGED <<idleVars, timeoutVars, air, offered, sent>>
        /\ UNCHANGED <<received, outcome, marks>>
    BY <1>10 DEF StartBackoff
  <2> QED BY <2>2, <2>3 DEF TypeOK, outcome, timeoutVars, idleVars, marks
<1>11. CASE BackoffEnds(n)
  <2>1. inbox' \in [Node -> Seq(Inbox)]
    <3>1. [type |-> "data", info |-> backoffInfo[n]] \in Inbox
      BY LocalTypes DEF Inbox
    <3>2. Append(inbox[n], [type |-> "data", info |-> backoffInfo[n]]) \in Seq(Inbox)
      BY <1>1, <3>1, AppendProperties
    <3> QED BY <1>1, <1>11, <3>2 DEF BackoffEnds
  <2>2. backoffs' \in [Node -> Nat]
    BY <1>11 DEF BackoffEnds, TypeOK
  <2> QED BY <1>11, <2>1, <2>2 DEF BackoffEnds, TypeOK, Inbox, outcome, timeoutVars, marks
<1> QED BY <1>2, <1>3, <1>4, <1>5, <1>6, <1>7, <1>8, <1>9, <1>10, <1>11
        DEF Acts, Works, Idle, Backoff

-----------------------------------------------------------------------------
(* The turns of a station. *)

\* What the turns are the sum of.
LEMMA TurnsAre ==
    ASSUME TypeOK, NEW n \in Node
    PROVE  /\ Bit(inIdle[n]) \in {0, 1} /\ Len(txInfo[n]) \in Nat
           /\ Owed(ackTimer[n]) \in Nat /\ Len(backoffIn[n]) \in Nat
           /\ backoffs[n] \in Nat /\ Len(inbox[n]) \in Nat /\ crossed[n] \in Nat
<1>1. /\ txInfo[n] \in Seq(Info) /\ backoffIn[n] \in Seq(Info)
      /\ inbox[n] \in Seq(Inbox) /\ backoffs[n] \in Nat /\ crossed[n] \in Nat
      /\ ackTimer[n] \in Timers(Info) /\ inIdle[n] \in BOOLEAN
  BY LocalTypes
<1>2. Owed(ackTimer[n]) \in Nat
  BY <1>1 DEF Owed, Bit, Timers
<1>3. Bit(inIdle[n]) \in {0, 1}
  BY DEF Bit
<1> QED BY <1>1, <1>2, <1>3

\* A verdict goes to idle, which sends the next frame or waits for one: in both
\* cases there is a turn afterwards.
LEMMA IdleTurns ==
    ASSUME TypeOK, NEW n \in Node, inbox[n] # <<>>, inbox'[n] = Tail(inbox[n]),
           UNCHANGED <<ackTimer, backoffIn, backoffs>>,
           NextSent(n) \/ Idled(n)
    PROVE  /\ Turns(n)' <= Turns(n) /\ Turns(n)' >= 1
           /\ Turns(n) \in Nat /\ Turns(n)' \in Nat
<1> DEFINE i == Bit(inIdle[n])
           x == Len(txInfo[n])
           o == Owed(ackTimer[n])
           k == Len(backoffIn[n])
           b == backoffs[n]
           m == Len(inbox[n])
<1>1. i \in {0, 1} /\ x \in Nat /\ o \in Nat /\ k \in Nat /\ b \in Nat /\ m \in Nat
  BY TurnsAre
<1>2. Len(inbox'[n]) = m - 1 /\ m >= 1
  BY LocalTypes, HeadTailProperties
<1>3. CASE NextSent(n)
  <2>1. Len(txInfo'[n]) = x + 1
    BY <1>3, Sends, LocalTypes, AppendProperties DEF NextSent
  <2>2. Bit(inIdle'[n]) = 0
    BY <1>3 DEF NextSent, Bit, TypeOK
  <2>3. Turns(n)' = 0 + (x + 1) + o + k + b + (m - 1)
    BY <1>2, <2>1, <2>2 DEF Turns
  <2>4. Turns(n) = i + x + o + k + b + m
    BY DEF Turns
  <2>5. LET u == i + x + o + k + b + m
            v == 0 + (x + 1) + o + k + b + (m - 1)
        IN  v <= u /\ v >= 1 /\ u \in Nat /\ v \in Nat
    <3> HIDE DEF i, x, o, k, b, m
    <3> QED BY <1>1, <1>2
  <2> QED BY <2>3, <2>4, <2>5
<1>4. CASE Idled(n)
  <2>1. Bit(inIdle'[n]) = 1 /\ txInfo' = txInfo
    BY <1>4 DEF Idled, Bit, TypeOK
  <2>2. Turns(n)' = 1 + x + o + k + b + (m - 1)
    BY <1>2, <2>1 DEF Turns
  <2>3. Turns(n) = i + x + o + k + b + m
    BY DEF Turns
  <2>4. LET u == i + x + o + k + b + m
            v == 1 + x + o + k + b + (m - 1)
        IN  v <= u /\ v >= 1 /\ u \in Nat /\ v \in Nat
    <3> HIDE DEF i, x, o, k, b, m
    <3> QED BY <1>1, <1>2
  <2> QED BY <2>2, <2>3, <2>4
<1> QED BY <1>3, <1>4

\* The turn goes from one holder to the next.  Data takes it away from idle; an
\* acknowledgement that crosses with its timeout adds one.
LEMMA CountStep ==
    ASSUME TypeOK, TypeOK', NEW n \in Node, BaseInv(n), CountInv(n), Acts(n)
    PROVE  CountInv(n)'
<1> SUFFICES ASSUME ~hurried'[n]
             PROVE  /\ OneThread(ackTimer'[n])
                    /\ Turns(n)' <= 1 + crossed'[n]
                    /\ ~stolen'[n] => Turns(n)' >= 1
  BY DEF CountInv
<1> DEFINE t == ackTimer[n]
           i == Bit(inIdle[n])
           x == Len(txInfo[n])
           o == Owed(t)
           k == Len(backoffIn[n])
           b == backoffs[n]
           m == Len(inbox[n])
           c == crossed[n]
<1>1. ~hurried[n]
  <2>1. CASE StartTimeout(n)
    BY <2>1 DEF StartTimeout, TypeOK
  <2>2. CASE ~StartTimeout(n)
    BY <2>2 DEF Acts, Works, Idle, Timer, Backoff, AppPayload, IdleRetry, IdleAck, ReceiveData,
                ReceiveAck, Lose, TimerDecides, TimerPublishes, TimerEnds, StartBackoff,
                BackoffEnds, marks
  <2> QED BY <2>1, <2>2
<1>2. /\ OneThread(t) /\ Turns(n) <= 1 + c /\ (~stolen[n] => Turns(n) >= 1)
  BY <1>1 DEF CountInv
<1>3. /\ i \in {0, 1} /\ x \in Nat /\ o \in Nat /\ k \in Nat /\ b \in Nat /\ m \in Nat
      /\ c \in Nat
  BY TurnsAre
<1>4. Turns(n) = i + x + o + k + b + m
  BY DEF Turns
<1>5. t \in Timers(Info)
  BY LocalTypes
<1>6. CASE AppPayload(n)
  <2>1. UNCHANGED <<inbox, ackTimer, backoffIn, backoffs, crossed, stolen>>
    BY <1>6 DEF AppPayload, backoffVars, marks
  <2>2. CASE MaySend(n) /\ NextSent(n)
    <3>1. Len(txInfo'[n]) = x + 1
      BY <2>2, Sends, LocalTypes, AppendProperties DEF NextSent
    <3>2. Bit(inIdle'[n]) = 0 /\ i = 1
      BY <2>2 DEF NextSent, Bit, TypeOK, MaySend
    <3>3. Turns(n)' = 0 + (x + 1) + o + k + b + m
      BY <2>1, <3>1, <3>2 DEF Turns
    <3>4. Turns(n)' = Turns(n)
      <4> HIDE DEF i, x, o, k, b, m
      <4> QED BY <1>3, <1>4, <3>2, <3>3
    <3> QED BY <1>2, <2>1, <3>4
  <2>3. CASE UNCHANGED <<inIdle, sending, air, txInfo, sent>>
    BY <1>2, <2>1, <2>3 DEF Turns
  <2> QED BY <1>6, <2>2, <2>3, PayloadMoves DEF BaseInv
<1>7. CASE IdleRetry(n)
  <2>1. /\ UNCHANGED <<ackTimer, backoffIn, backoffs, crossed, stolen>>
        /\ inbox[n] # <<>> /\ inbox'[n] = Tail(inbox[n])
    BY <1>7, RetryMoves DEF IdleRetry, backoffVars, marks
  <2>2. CASE NextSent(n) \/ Idled(n)
    <3>1. Turns(n)' <= Turns(n) /\ Turns(n)' >= 1 /\ Turns(n) \in Nat /\ Turns(n)' \in Nat
      BY <2>1, <2>2, IdleTurns
    <3> HIDE DEF i, x, o, k, b, m, c
    <3> QED BY <1>2, <1>3, <2>1, <3>1 DEF c
  <2>3. CASE /\ \E info \in Info :
                   info.frame = sending[n].frame /\ DataOut(n, info)
             /\ UNCHANGED <<inIdle, txBuff, abandoned>>
    <3>1. Len(txInfo'[n]) = x + 1
      <4>1. sending[n].frame \in Payload
        BY <1>7, RetryMoves
      <4> QED BY <2>3, <4>1, Sends, LocalTypes, AppendProperties
    <3>2. Len(inbox'[n]) = m - 1
      BY <2>1, LocalTypes, HeadTailProperties
    <3>3. Turns(n)' = i + (x + 1) + o + k + b + (m - 1)
      BY <2>1, <2>3, <3>1, <3>2 DEF Turns
    <3>4. Turns(n)' = Turns(n)
      <4> HIDE DEF i, x, o, k, b, m
      <4> QED BY <1>3, <1>4, <3>3
    <3> QED BY <1>2, <2>1, <3>4
  <2> QED BY <1>7, <2>2, <2>3, RetryMoves
<1>8. CASE IdleAck(n)
  <2>1. /\ UNCHANGED <<ackTimer, backoffIn, backoffs, crossed, stolen>>
        /\ inbox[n] # <<>> /\ inbox'[n] = Tail(inbox[n])
        /\ NextSent(n) \/ Idled(n)
    BY <1>8, AckMoves DEF IdleAck, backoffVars, marks
  <2>2. Turns(n)' <= Turns(n) /\ Turns(n)' >= 1 /\ Turns(n) \in Nat /\ Turns(n)' \in Nat
    BY <2>1, IdleTurns
  <2> HIDE DEF i, x, o, k, b, m, c
  <2> QED BY <1>2, <1>3, <2>1, <2>2 DEF c
<1>9. CASE ReceiveData(n)
  <2>1. /\ UNCHANGED <<txInfo, ackTimer, backoffIn, backoffs, inbox, crossed>>
        /\ ~inIdle'[n] /\ stolen'[n] = (stolen[n] \/ inIdle[n])
    BY <1>9 DEF ReceiveData, TypeOK, timeoutVars, backoffVars
  <2>2. Turns(n)' = 0 + x + o + k + b + m
    BY <2>1 DEF Turns, Bit
  <2>3. ~stolen'[n] => ~stolen[n] /\ i = 0
    BY <2>1 DEF Bit
  <2> HIDE DEF i, x, o, k, b, m, c
  <2> QED BY <1>2, <1>3, <1>4, <2>1, <2>2, <2>3 DEF t, c
<1>10. CASE ReceiveAck(n)
  <2>1. UNCHANGED <<inIdle, txInfo, backoffIn, backoffs, stolen>>
    BY <1>10 DEF ReceiveAck, backoffVars
  <2>2. CASE Matches(n, Head(air[n]))
    <3>1. /\ ackTimer'[n] = Killed(t) /\ crossed'[n] = c + Bit(Past(t)) /\ t.set
          /\ \E f : inbox'[n] = Append(inbox[n], f)
      BY <1>10, <2>2 DEF ReceiveAck, Matches, TypeOK
    <3>2. Len(inbox'[n]) = m + 1
      BY <3>1, LocalTypes
    <3>3. Turns(n)' = i + x + Owed(Killed(t)) + k + b + (m + 1)
      BY <2>1, <3>1, <3>2 DEF Turns
    <3>4. OneThread(ackTimer'[n])
      BY <1>2, <1>5, <3>1, TimerKilled
    <3>5. CASE Past(t)
      <4>1. Owed(Killed(t)) = o /\ crossed'[n] = c + 1
        BY <1>2, <1>5, <3>1, <3>5, TimerKilled DEF Bit
      <4>2. Turns(n)' <= 1 + crossed'[n] /\ (~stolen'[n] => Turns(n)' >= 1)
        <5> HIDE DEF i, x, o, k, b, m, c
        <5> QED BY <1>2, <1>3, <1>4, <2>1, <3>3, <4>1
      <4> QED BY <3>4, <4>2
    <3>6. CASE ~Past(t)
      <4>1. Owed(Killed(t)) = 0 /\ o = 1 /\ crossed'[n] = c
        BY <1>2, <1>3, <1>5, <3>1, <3>6, TimerKilled DEF Bit
      <4>2. Turns(n)' <= 1 + crossed'[n] /\ (~stolen'[n] => Turns(n)' >= 1)
        <5> HIDE DEF i, x, o, k, b, m, c
        <5> QED BY <1>2, <1>3, <1>4, <2>1, <3>3, <4>1
      <4> QED BY <3>4, <4>2
    <3> QED BY <3>5, <3>6
  <2>3. CASE ~Matches(n, Head(air[n]))
    <3>1. UNCHANGED <<ackTimer, inbox, crossed>>
      BY <1>10, <2>3 DEF ReceiveAck
    <3> QED BY <1>2, <2>1, <3>1 DEF Turns
  <2> QED BY <2>2, <2>3
<1>11. CASE Lose(n)
  <2>1. UNCHANGED <<inIdle, txInfo, ackTimer, backoffIn, backoffs, inbox, crossed, stolen>>
    BY <1>11 DEF Lose, idleVars, timeoutVars, backoffVars, marks
  <2> QED BY <1>2, <2>1 DEF Turns
<1>12. CASE StartTimeout(n)
  <2>1. /\ txInfo[n] # <<>> /\ txInfo'[n] = Tail(txInfo[n])
        /\ ackTimer'[n] = Started(t, Head(txInfo[n]))
        /\ hurried'[n] = (hurried[n] \/ Alive(t))
        /\ UNCHANGED <<inIdle, backoffIn, backoffs, inbox, crossed, stolen>>
    BY <1>12 DEF StartTimeout, TypeOK, idleVars, backoffVars
  <2>2. Len(txInfo'[n]) = x - 1 /\ Head(txInfo[n]) \in Info
    BY <2>1, LocalTypes, HeadTailProperties
  <2>3. OneThread(ackTimer'[n]) /\ o = 0 /\ Owed(ackTimer'[n]) = 1
    <3>1. ~Alive(t)
      BY <2>1
    <3> HIDE DEF t, o
    <3>2. /\ OneThread(Started(t, Head(txInfo[n]))) /\ Owed(t) = 0
          /\ Owed(Started(t, Head(txInfo[n]))) = 1
      BY <1>2, <1>5, <2>2, <3>1, TimerStarted
    <3> QED BY <2>1, <3>2 DEF t, o
  <2>4. Turns(n)' = i + (x - 1) + 1 + k + b + m
    BY <2>1, <2>2, <2>3 DEF Turns
  <2>5. Turns(n)' = Turns(n)
    <3> HIDE DEF i, x, o, k, b, m
    <3> QED BY <1>3, <1>4, <2>3, <2>4
  <2> QED BY <1>2, <2>1, <2>3, <2>5
<1>13. CASE TimerDecides(n)
  <2>1. /\ t.counting > 0 /\ ackTimer'[n] = Decided(t)
        /\ UNCHANGED <<inIdle, txInfo, backoffIn, backoffs, inbox, crossed, stolen>>
    BY <1>13 DEF TimerDecides, TypeOK, idleVars, backoffVars, marks
  <2>2. OneThread(ackTimer'[n]) /\ Owed(ackTimer'[n]) = o
    BY <1>2, <1>5, <2>1, TimerRuns
  <2>3. Turns(n)' = Turns(n)
    BY <2>1, <2>2 DEF Turns
  <2> QED BY <1>2, <2>1, <2>2, <2>3
<1>14. CASE TimerPublishes(n)
  <2>1. /\ t.due > 0 /\ ackTimer'[n] = Told(t)
        /\ \E f : backoffIn'[n] = Append(backoffIn[n], f)
        /\ UNCHANGED <<inIdle, txInfo, backoffs, inbox, crossed, stolen>>
    BY <1>14 DEF TimerPublishes, TypeOK, idleVars, marks
  <2>2. OneThread(ackTimer'[n]) /\ Owed(ackTimer'[n]) = 0 /\ o = 1
    BY <1>2, <1>5, <2>1, TimerRuns
  <2>3. Len(backoffIn'[n]) = k + 1
    BY <2>1, LocalTypes
  <2>4. Turns(n)' = i + x + 0 + (k + 1) + b + m
    BY <2>1, <2>2, <2>3 DEF Turns
  <2>5. Turns(n)' = Turns(n)
    <3> HIDE DEF i, x, o, k, b, m
    <3> QED BY <1>3, <1>4, <2>2, <2>4
  <2> QED BY <1>2, <2>1, <2>2, <2>5
<1>15. CASE TimerEnds(n)
  <2>1. /\ t.ending > 0 /\ ackTimer'[n] = Ended(t)
        /\ UNCHANGED <<inIdle, txInfo, backoffIn, backoffs, inbox, crossed, stolen>>
    BY <1>15 DEF TimerEnds, TypeOK, idleVars, backoffVars, marks
  <2>2. OneThread(ackTimer'[n]) /\ Owed(ackTimer'[n]) = o
    BY <1>2, <1>5, <2>1, TimerRuns
  <2>3. Turns(n)' = Turns(n)
    BY <2>1, <2>2 DEF Turns
  <2> QED BY <1>2, <2>1, <2>2, <2>3
<1>16. CASE StartBackoff(n)
  <2>1. /\ backoffIn[n] # <<>> /\ backoffIn'[n] = Tail(backoffIn[n])
        /\ backoffs'[n] = b + 1
        /\ UNCHANGED <<inIdle, txInfo, ackTimer, inbox, crossed, stolen>>
    BY <1>16 DEF StartBackoff, TypeOK, idleVars, timeoutVars, marks
  <2>2. Len(backoffIn'[n]) = k - 1
    BY <2>1, LocalTypes, HeadTailProperties
  <2>3. Turns(n)' = i + x + o + (k - 1) + (b + 1) + m
    BY <2>1, <2>2 DEF Turns
  <2>4. Turns(n)' = Turns(n)
    <3> HIDE DEF i, x, o, k, b, m
    <3> QED BY <1>3, <1>4, <2>3
  <2> QED BY <1>2, <2>1, <2>4
<1>17. CASE BackoffEnds(n)
  <2>1. /\ backoffs'[n] = b - 1 /\ \E f : inbox'[n] = Append(inbox[n], f)
        /\ UNCHANGED <<inIdle, txInfo, ackTimer, backoffIn, crossed, stolen>>
    BY <1>17 DEF BackoffEnds, TypeOK, timeoutVars, marks
  <2>2. Len(inbox'[n]) = m + 1
    BY <2>1, LocalTypes
  <2>3. Turns(n)' = i + x + o + k + (b - 1) + (m + 1)
    BY <2>1, <2>2 DEF Turns
  <2>4. Turns(n)' = Turns(n)
    <3> HIDE DEF i, x, o, k, b, m
    <3> QED BY <1>3, <1>4, <2>3
  <2> QED BY <1>2, <2>1, <2>4
<1> QED BY <1>6, <1>7, <1>8, <1>9, <1>10, <1>11, <1>12, <1>13, <1>14, <1>15, <1>16, <1>17
        DEF Acts, Works, Idle, Timer, Backoff

-----------------------------------------------------------------------------
(* A station that has had one verdict on each transmission. *)

\* When there is one turn at most, who has it is the only one.
LEMMA Alone ==
    ASSUME TypeOK, NEW n \in Node, Turns(n) <= 1
    PROVE  /\ inIdle[n] => /\ txInfo[n] = <<>> /\ Owed(ackTimer[n]) = 0
                           /\ backoffIn[n] = <<>> /\ backoffs[n] = 0 /\ inbox[n] = <<>>
           /\ txInfo[n] # <<>> =>
                 /\ Tail(txInfo[n]) = <<>> /\ Owed(ackTimer[n]) = 0
                 /\ backoffIn[n] = <<>> /\ backoffs[n] = 0 /\ inbox[n] = <<>>
           /\ Owed(ackTimer[n]) > 0 =>
                 /\ txInfo[n] = <<>> /\ Owed(ackTimer[n]) = 1
                 /\ backoffIn[n] = <<>> /\ backoffs[n] = 0 /\ inbox[n] = <<>>
           /\ backoffIn[n] # <<>> =>
                 /\ txInfo[n] = <<>> /\ Owed(ackTimer[n]) = 0
                 /\ Tail(backoffIn[n]) = <<>> /\ backoffs[n] = 0 /\ inbox[n] = <<>>
           /\ backoffs[n] > 0 =>
                 /\ txInfo[n] = <<>> /\ Owed(ackTimer[n]) = 0
                 /\ backoffIn[n] = <<>> /\ backoffs[n] = 1 /\ inbox[n] = <<>>
           /\ inbox[n] # <<>> =>
                 /\ txInfo[n] = <<>> /\ Owed(ackTimer[n]) = 0 /\ ~inIdle[n]
                 /\ backoffIn[n] = <<>> /\ backoffs[n] = 0 /\ Tail(inbox[n]) = <<>>
<1> DEFINE i == Bit(inIdle[n])
           x == Len(txInfo[n])
           o == Owed(ackTimer[n])
           k == Len(backoffIn[n])
           b == backoffs[n]
           m == Len(inbox[n])
<1>1. i \in {0, 1} /\ x \in Nat /\ o \in Nat /\ k \in Nat /\ b \in Nat /\ m \in Nat
  BY TurnsAre
<1>2. i + x + o + k + b + m <= 1
  BY DEF Turns
<1>3. ASSUME NEW S, NEW s \in Seq(S)
      PROVE  /\ Len(s) = 0 <=> s = <<>>
             /\ Len(s) = 1 => Tail(s) = <<>>
  <2>1. s # <<>> => Tail(s) \in Seq(S) /\ Len(Tail(s)) = Len(s) - 1
    BY <1>3, HeadTailProperties
  <2>2. ASSUME Len(s) = 1 PROVE Tail(s) = <<>>
    <3>1. s # <<>>
      BY <2>2
    <3> DEFINE r == Tail(s)
    <3>2. r \in Seq(S) /\ Len(r) = 0
      BY <2>1, <2>2, <3>1
    <3> HIDE DEF r
    <3>3. r = <<>>
      BY <3>2, EmptySeq
    <3> QED BY <3>3 DEF r
  <2> QED BY <1>3, <2>2, EmptySeq
<1>4. /\ x = 0 <=> txInfo[n] = <<>>
      /\ x = 1 => Tail(txInfo[n]) = <<>>
  BY <1>3, LocalTypes
<1>5. /\ k = 0 <=> backoffIn[n] = <<>>
      /\ k = 1 => Tail(backoffIn[n]) = <<>>
  BY <1>3, LocalTypes
<1>6. /\ m = 0 <=> inbox[n] = <<>>
      /\ m = 1 => Tail(inbox[n]) = <<>>
  BY <1>3, LocalTypes
<1>7. i = 1 <=> inIdle[n]
  BY DEF Bit
<1> HIDE DEF i, x, o, k, b, m
<1>8. /\ i = 1 => x = 0 /\ o = 0 /\ k = 0 /\ b = 0 /\ m = 0
      /\ x > 0 => x = 1 /\ o = 0 /\ k = 0 /\ b = 0 /\ m = 0
      /\ o > 0 => x = 0 /\ o = 1 /\ k = 0 /\ b = 0 /\ m = 0
      /\ k > 0 => x = 0 /\ o = 0 /\ k = 1 /\ b = 0 /\ m = 0
      /\ b > 0 => x = 0 /\ o = 0 /\ k = 0 /\ b = 1 /\ m = 0
      /\ m > 0 => x = 0 /\ o = 0 /\ k = 0 /\ b = 0 /\ m = 1 /\ i = 0
  BY <1>1, <1>2
<1>9. (x # 0 => x > 0) /\ (k # 0 => k > 0) /\ (m # 0 => m > 0)
  BY <1>1
<1>10. inIdle[n] => /\ txInfo[n] = <<>> /\ o = 0
                    /\ backoffIn[n] = <<>> /\ b = 0 /\ inbox[n] = <<>>
  BY <1>4, <1>5, <1>6, <1>7, <1>8
<1>11. txInfo[n] # <<>> => /\ Tail(txInfo[n]) = <<>> /\ o = 0
                           /\ backoffIn[n] = <<>> /\ b = 0 /\ inbox[n] = <<>>
  BY <1>4, <1>5, <1>6, <1>8, <1>9
<1>12. o > 0 => /\ txInfo[n] = <<>> /\ o = 1
                /\ backoffIn[n] = <<>> /\ b = 0 /\ inbox[n] = <<>>
  BY <1>4, <1>5, <1>6, <1>8
<1>13. backoffIn[n] # <<>> => /\ txInfo[n] = <<>> /\ o = 0
                              /\ Tail(backoffIn[n]) = <<>> /\ b = 0 /\ inbox[n] = <<>>
  BY <1>4, <1>5, <1>6, <1>8, <1>9
<1>14. b > 0 => /\ txInfo[n] = <<>> /\ o = 0
                /\ backoffIn[n] = <<>> /\ b = 1 /\ inbox[n] = <<>>
  BY <1>4, <1>5, <1>6, <1>8
<1>15. inbox[n] # <<>> => /\ txInfo[n] = <<>> /\ o = 0 /\ ~inIdle[n]
                          /\ backoffIn[n] = <<>> /\ b = 0 /\ Tail(inbox[n]) = <<>>
  BY <1>4, <1>5, <1>6, <1>7, <1>8, <1>9
<1> QED BY <1>10, <1>11, <1>12, <1>13, <1>14, <1>15 DEF o, b

\* A frame that is sent when nothing else is under way has the turn.
LEMMA SentHasTurn ==
    ASSUME TypeOK, NEW n \in Node, NEW info \in Info, info.frame \in Payload,
           DataOut(n, info), txInfo[n] = <<>>, Owed(ackTimer'[n]) = 0,
           backoffIn'[n] = <<>>, backoffs'[n] = 0, inbox'[n] = <<>>,
           info.frame \notin succeeded'[n] \union abandoned'[n]
    PROVE  TurnInv(n)'
<1>1. sending'[n] = info /\ txInfo'[n] = Append(txInfo[n], info)
  BY Sends
<1>2. txInfo'[n] = <<info>>
  BY <1>1
<1>3. Pending(n)'
  <2>1. info.frame > 0
    BY DEF Payload
  <2> QED BY <1>1, <2>1 DEF Pending
<1> QED BY <1>1, <1>2, <1>3 DEF TurnInv

\* The next frame has not been sent before.
LEMMA NextCounts ==
    ASSUME TypeOK, NEW n \in Node, BufferInv(n), SentInv(n), NextSent(n)
    PROVE  SentInv(n)' /\ sending'[n].frame = sending[n].frame + 1
<1>1. PICK info \in Info :
        /\ info.frame = sending[n].frame + 1 /\ info.frame \in Payload
        /\ info.num = 1 /\ DataOut(n, info)
  BY DEF NextSent
<1>2. /\ sending'[n] = info
      /\ sent'[n][info.frame] = sent[n][info.frame] + 1
      /\ \A i \in Payload : i # info.frame => sent'[n][i] = sent[n][i]
  BY <1>1, Sends
<1>3. sent[n][info.frame] = 0
  BY <1>1, LocalTypes DEF BufferInv
<1>4. \A i \in Payload : sent'[n][i] <= MaxTransmissions
  BY <1>1, <1>2, <1>3, LimitAssumption DEF SentInv
<1> QED BY <1>1, <1>2, <1>3, <1>4 DEF SentInv

\* A verdict of one turn is on the frame sent last.
LEMMA Judged ==
    ASSUME TypeOK, NEW n \in Node, Turns(n) <= 1, TurnInv(n), inbox[n] # <<>>
    PROVE  /\ Pending(n) /\ Tail(inbox[n]) = <<>>
           /\ Head(inbox[n]).info = sending[n]
           /\ inbox[n] = <<Verdict(n, Head(inbox[n]).type)>>
<1>1. PICK t \in {"data", "ack"} : inbox[n] = <<Verdict(n, t)>>
  BY DEF TurnInv
<1>2. Head(inbox[n]) = Verdict(n, t) /\ Tail(inbox[n]) = <<>>
  BY <1>1
<1>3. Pending(n)
  BY DEF TurnInv
<1> QED BY <1>1, <1>2, <1>3 DEF Verdict

\* idle goes on after a verdict on the frame sent last.
LEMMA VerdictTaken ==
    ASSUME TypeOK, NEW n \in Node, NodeInv(n), Turns(n) <= 1, TurnInv(n), SentInv(n),
           inbox[n] # <<>>, inbox'[n] = Tail(inbox[n]),
           UNCHANGED <<ackTimer, backoffIn, backoffs>>,
           NextSent(n) \/ Idled(n),
           succeeded'[n] \union abandoned'[n] \subseteq Payload,
           \A i \in succeeded'[n] \union abandoned'[n] : i <= sending[n].frame
    PROVE  /\ TurnInv(n)' /\ SentInv(n)'
           /\ \A i \in succeeded'[n] \union abandoned'[n] : i <= sending'[n].frame
<1>1. /\ txInfo[n] = <<>> /\ Owed(ackTimer'[n]) = 0
      /\ backoffIn'[n] = <<>> /\ backoffs'[n] = 0 /\ inbox'[n] = <<>>
  BY Alone
<1>2. sending[n].frame \in Nat
  BY LocalTypes
<1>3. CASE NextSent(n)
  <2>1. PICK info \in Info :
          /\ info.frame = sending[n].frame + 1 /\ info.frame \in Payload
          /\ DataOut(n, info)
    BY <1>3 DEF NextSent
  <2>2. info.frame \notin succeeded'[n] \union abandoned'[n]
    BY <1>2, <2>1
  <2>3. SentInv(n)' /\ sending'[n].frame = sending[n].frame + 1
    BY <1>3, NextCounts DEF NodeInv, BaseInv
  <2>4. \A i \in succeeded'[n] \union abandoned'[n] : i <= sending'[n].frame
    <3>1. ASSUME NEW i, i <= sending[n].frame, i \in Payload
          PROVE i <= sending[n].frame + 1
      BY <1>2, <3>1 DEF Payload
    <3> QED BY <2>3, <3>1
  <2> QED BY <1>1, <2>1, <2>2, <2>3, <2>4, SentHasTurn
<1>4. CASE Idled(n)
  <2>1. UNCHANGED <<sending, txInfo, sent>>
    BY <1>4 DEF Idled
  <2>2. TurnInv(n)'
    <3>1. txInfo'[n] = <<>> /\ ~(0 > 0)
      BY <1>1, <2>1
    <3> QED BY <1>1, <3>1 DEF TurnInv
  <2> QED BY <2>1, <2>2 DEF SentInv
<1> QED BY <1>3, <1>4

\* A station was orderly before it is.
LEMMA OrderlyBefore ==
    ASSUME TypeOK, NEW n \in Node, Acts(n), Orderly(n)'
    PROVE  Orderly(n)
<1>1. hurried[n] \in BOOLEAN /\ crossed[n] \in Nat
  BY LocalTypes
<1>2. CASE StartTimeout(n)
  BY <1>1, <1>2 DEF StartTimeout, TypeOK, Orderly
<1>3. CASE ReceiveAck(n)
  <2>1. CASE Matches(n, Head(air[n]))
    <3>1. crossed'[n] = crossed[n] + Bit(Past(ackTimer[n])) /\ hurried' = hurried
      BY <1>3, <2>1 DEF ReceiveAck, TypeOK
    <3>2. crossed[n] = 0
      BY <1>1, <3>1 DEF Orderly, Bit
    <3> QED BY <3>1, <3>2 DEF Orderly
  <2>2. CASE ~Matches(n, Head(air[n]))
    BY <1>3, <2>2 DEF ReceiveAck, Orderly
  <2> QED BY <2>1, <2>2
<1>4. CASE ~StartTimeout(n) /\ ~ReceiveAck(n)
  <2>1. UNCHANGED <<hurried, crossed>>
    BY <1>4 DEF Acts, Works, Idle, Timer, Backoff, AppPayload, IdleRetry, IdleAck, ReceiveData,
                Lose, TimerDecides, TimerPublishes, TimerEnds, StartBackoff, BackoffEnds, marks
  <2> QED BY <2>1 DEF Orderly
<1> QED BY <1>2, <1>3, <1>4

\* The turn goes from the transmission to the timer, on to the backoff or back
\* to idle, always with the info of the frame sent last.
LEMMA OrderlyStep ==
    ASSUME TypeOK, TypeOK', NEW n \in Node, NodeInv(n), Acts(n)
    PROVE  OrderlyInv(n)'
<1> SUFFICES ASSUME Orderly(n)'
             PROVE  TurnInv(n)' /\ SentInv(n)' /\ VerdictInv(n)'
  BY DEF OrderlyInv
<1> DEFINE t == ackTimer[n]
           i0 == sending[n].frame
<1>1. Orderly(n) /\ TurnInv(n) /\ SentInv(n) /\ VerdictInv(n)
  BY OrderlyBefore DEF NodeInv, OrderlyInv
<1>2. Turns(n) <= 1 /\ OneThread(t)
  BY <1>1 DEF NodeInv, CountInv, Orderly
<1>3. t \in Timers(Info) /\ i0 \in Nat /\ sending[n] \in Info /\ BufferInv(n)
  BY LocalTypes DEF NodeInv, BaseInv
<1>4. succeeded'[n] \subseteq Payload /\ abandoned'[n] \subseteq Payload
  BY DEF TypeOK
<1>5. CASE AppPayload(n)
  <2>1. UNCHANGED <<inbox, ackTimer, backoffIn, backoffs, backoffInfo, succeeded, doubled,
                    abandoned>>
    BY <1>5 DEF AppPayload, backoffVars, outcome
  <2>2. CASE MaySend(n) /\ NextSent(n)
    <3>1. PICK info \in Info :
            /\ info.frame = sending[n].frame + 1 /\ info.frame \in Payload
            /\ DataOut(n, info)
      BY <2>2 DEF NextSent
    <3>2. /\ txInfo[n] = <<>> /\ Owed(ackTimer'[n]) = 0
          /\ backoffIn'[n] = <<>> /\ backoffs'[n] = 0 /\ inbox'[n] = <<>>
      BY <1>2, <2>1, <2>2, Alone DEF MaySend
    <3>3. info.frame \notin succeeded'[n] \union abandoned'[n]
      BY <1>1, <1>3, <2>1, <3>1 DEF VerdictInv
    <3>4. TurnInv(n)'
      BY <3>1, <3>2, <3>3, SentHasTurn
    <3>5. SentInv(n)' /\ sending'[n].frame = i0 + 1
      BY <1>1, <1>3, <2>2, NextCounts
    <3>6. VerdictInv(n)'
      <4>1. ASSUME NEW i \in Payload, i <= i0 PROVE i <= i0 + 1
        BY <1>3, <4>1 DEF Payload
      <4> HIDE DEF i0
      <4>2. \A i \in succeeded[n] \union abandoned[n] : i <= i0 + 1
        BY <1>1, <1>4, <2>1, <4>1 DEF VerdictInv, i0
      <4> QED BY <1>1, <2>1, <3>5, <4>2 DEF VerdictInv
    <3> QED BY <3>4, <3>5, <3>6
  <2>3. CASE UNCHANGED <<inIdle, sending, air, txInfo, sent>>
    BY <1>1, <2>1, <2>3 DEF TurnInv, SentInv, VerdictInv, Pending, Verdict
  <2> QED BY <1>3, <1>5, <2>2, <2>3, PayloadMoves
<1>6. CASE IdleRetry(n)
  <2>1. /\ UNCHANGED <<ackTimer, backoffIn, backoffs, succeeded, doubled>>
        /\ inbox[n] # <<>> /\ inbox'[n] = Tail(inbox[n])
        /\ i0 \in Payload
    BY <1>6, RetryMoves DEF IdleRetry, backoffVars, NodeInv
  <2>2. /\ Pending(n) /\ Tail(inbox[n]) = <<>> /\ Head(inbox[n]).info = sending[n]
    BY <1>1, <1>2, <2>1, Judged
  <2>3. CASE /\ abandoned' = [abandoned EXCEPT ![n] = @ \union {sending[n].frame}]
             /\ NextSent(n) \/ Idled(n)
    <3>1. abandoned'[n] = abandoned[n] \union {i0}
      BY <2>3 DEF TypeOK
    <3>2. \A i \in succeeded'[n] \union abandoned'[n] : i <= sending[n].frame
      BY <1>1, <1>3, <2>1, <3>1 DEF VerdictInv
    <3>3. /\ TurnInv(n)' /\ SentInv(n)'
          /\ \A i \in succeeded'[n] \union abandoned'[n] : i <= sending'[n].frame
      BY <1>1, <1>2, <1>4, <2>1, <2>3, <3>2, VerdictTaken
    <3>4. VerdictInv(n)'
      BY <1>1, <2>1, <2>2, <3>1, <3>3 DEF VerdictInv, Pending
    <3> QED BY <3>3, <3>4
  <2>4. CASE /\ \E info \in Info :
                   /\ info.frame = sending[n].frame
                   /\ info.num = Head(inbox[n]).info.num + 1
                   /\ DataOut(n, info)
             /\ UNCHANGED <<inIdle, txBuff, abandoned>>
    <3>1. PICK info \in Info :
            info.frame = i0 /\ info.num = sending[n].num + 1 /\ DataOut(n, info)
      BY <2>2, <2>4
    <3>2. /\ sending'[n] = info
          /\ sent'[n][info.frame] = sent[n][info.frame] + 1
          /\ \A i \in Payload : i # info.frame => sent'[n][i] = sent[n][i]
      BY <2>1, <3>1, Sends
    <3>3. /\ txInfo[n] = <<>> /\ Owed(ackTimer'[n]) = 0
          /\ backoffIn'[n] = <<>> /\ backoffs'[n] = 0 /\ inbox'[n] = <<>>
      BY <1>2, <2>1, <2>2, Alone
    <3>4. TurnInv(n)'
      BY <2>1, <2>2, <2>4, <3>1, <3>3, SentHasTurn DEF Pending
    <3>5. SentInv(n)'
      <4>1. sent[n][i0] = sending[n].num
        BY <1>1, <2>2 DEF SentInv, Pending
      <4>2. sent'[n][i0] = info.num /\ info.num <= MaxTransmissions
        BY <3>1, <3>2, <4>1, LimitAssumption DEF Info
      <4>3. \A i \in Payload : sent'[n][i] <= MaxTransmissions
        BY <1>1, <3>1, <3>2, <4>2 DEF SentInv
      <4> QED BY <3>1, <3>2, <4>2, <4>3 DEF SentInv
    <3>6. VerdictInv(n)'
      BY <1>1, <2>1, <2>4, <3>1, <3>2 DEF VerdictInv
    <3> QED BY <3>4, <3>5, <3>6
  <2> QED BY <1>6, <2>3, <2>4, RetryMoves DEF NodeInv
<1>7. CASE IdleAck(n)
  <2>1. /\ UNCHANGED <<ackTimer, backoffIn, backoffs, abandoned>>
        /\ inbox[n] # <<>> /\ inbox'[n] = Tail(inbox[n])
        /\ NextSent(n) \/ Idled(n)
    BY <1>7, AckMoves DEF IdleAck, backoffVars, NodeInv
  <2>2. Pending(n)
    BY <1>1, <1>2, <2>1, Judged
  <2>3. /\ succeeded'[n] = succeeded[n] \union {i0}
        /\ doubled'[n] = (doubled[n] \/ i0 \in succeeded[n])
    BY <1>7 DEF IdleAck, TypeOK
  <2>4. \A i \in succeeded'[n] \union abandoned'[n] : i <= sending[n].frame
    BY <1>1, <1>3, <2>1, <2>3 DEF VerdictInv
  <2>5. /\ TurnInv(n)' /\ SentInv(n)'
        /\ \A i \in succeeded'[n] \union abandoned'[n] : i <= sending'[n].frame
    BY <1>1, <1>2, <1>4, <2>1, <2>4, VerdictTaken
  <2>6. VerdictInv(n)'
    BY <1>1, <2>1, <2>2, <2>3, <2>5 DEF VerdictInv, Pending
  <2> QED BY <2>5, <2>6
<1>8. CASE ~AppPayload(n) /\ ~Idle(n)
  <2>1. UNCHANGED <<sending, sent, succeeded, doubled, abandoned>>
    BY <1>8 DEF Acts, Works, Timer, Backoff, ReceiveData, ReceiveAck, Lose, StartTimeout,
                TimerDecides, TimerPublishes, TimerEnds, StartBackoff, BackoffEnds,
                idleVars, outcome
  <2>2. SentInv(n)' /\ VerdictInv(n)'
    BY <1>1, <2>1 DEF SentInv, VerdictInv
  <2>3. Pending(n)' = Pending(n) /\ \A v : Verdict(n, v)' = Verdict(n, v)
    BY <2>1 DEF Pending, Verdict
  <2>4. CASE ReceiveData(n) \/ Lose(n)
    <3>1. UNCHANGED <<txInfo, ackTimer, backoffIn, backoffs, backoffInfo, inbox>>
      BY <2>4 DEF ReceiveData, Lose, idleVars, timeoutVars, backoffVars
    <3> QED BY <1>1, <2>1, <2>2, <2>3, <3>1 DEF TurnInv
  <2>5. CASE ReceiveAck(n)
    <3>1. UNCHANGED <<txInfo, backoffIn, backoffs, backoffInfo>>
      BY <2>5 DEF ReceiveAck, backoffVars
    <3>2. CASE Matches(n, Head(air[n]))
      <4>1. /\ ackTimer'[n] = Killed(t) /\ t.set
            /\ inbox'[n] = Append(inbox[n], [type |-> "ack", info |-> t.waiting])
            /\ crossed'[n] = crossed[n] + Bit(Past(t))
        BY <2>5, <3>2 DEF ReceiveAck, Matches, TypeOK
      <4>2. ~Past(t)
        BY <1>1, <4>1 DEF Orderly, Bit
      <4>3. Owed(t) = 1 /\ Owed(Killed(t)) = 0
        BY <1>2, <1>3, <4>1, <4>2, TimerKilled
      <4>4. /\ txInfo[n] = <<>> /\ backoffIn[n] = <<>> /\ backoffs[n] = 0 /\ inbox[n] = <<>>
            /\ t.waiting = sending[n] /\ Pending(n)
        BY <1>1, <1>2, <4>3, Alone DEF TurnInv
      <4>5. inbox'[n] = <<Verdict(n, "ack")>>
        BY <4>1, <4>4 DEF Verdict
      <4>6. txInfo'[n] = <<>> /\ backoffIn'[n] = <<>> /\ backoffs'[n] = 0 /\ ~(0 > 0)
        BY <3>1, <4>4
      <4>7. TurnInv(n)'
        BY <2>3, <4>1, <4>3, <4>4, <4>5, <4>6 DEF TurnInv
      <4> QED BY <2>2, <4>7
    <3>3. CASE ~Matches(n, Head(air[n]))
      <4>1. UNCHANGED <<ackTimer, inbox>>
        BY <2>5, <3>3 DEF ReceiveAck
      <4> QED BY <1>1, <2>1, <2>2, <2>3, <3>1, <4>1 DEF TurnInv
    <3> QED BY <3>2, <3>3
  <2>6. CASE StartTimeout(n)
    <3>1. /\ txInfo[n] # <<>> /\ txInfo'[n] = Tail(txInfo[n])
          /\ ackTimer'[n] = Started(t, Head(txInfo[n]))
          /\ hurried'[n] = (hurried[n] \/ Alive(t))
          /\ UNCHANGED <<backoffIn, backoffs, backoffInfo, inbox>>
      BY <2>6 DEF StartTimeout, TypeOK, idleVars, backoffVars
    <3>2. txInfo[n] = <<sending[n]>> /\ Pending(n)
      BY <1>1, <3>1 DEF TurnInv
    <3>3. /\ txInfo'[n] = <<>> /\ backoffIn'[n] = <<>> /\ backoffs'[n] = 0
          /\ inbox'[n] = <<>> /\ Head(txInfo[n]) = sending[n] /\ ~(0 > 0)
      BY <1>2, <3>1, <3>2, Alone
    <3>4. ackTimer'[n].waiting = sending[n]
      <4>1. ~Alive(t)
        BY <3>1 DEF Orderly
      <4> HIDE DEF t
      <4> QED BY <1>2, <1>3, <3>1, <3>3, <4>1, TimerStarted
    <3>5. TurnInv(n)'
      BY <2>1, <2>3, <3>2, <3>3, <3>4 DEF TurnInv
    <3> QED BY <2>2, <3>5
  <2>7. CASE TimerDecides(n)
    <3>1. /\ t.counting > 0 /\ ackTimer'[n] = Decided(t)
          /\ UNCHANGED <<txInfo, backoffIn, backoffs, backoffInfo, inbox>>
      BY <2>7 DEF TimerDecides, TypeOK, idleVars, backoffVars
    <3>2. ackTimer'[n].waiting = t.waiting /\ Owed(ackTimer'[n]) = Owed(t)
      BY <1>2, <1>3, <3>1, TimerRuns
    <3>3. TurnInv(n)'
      BY <1>1, <2>1, <2>3, <3>1, <3>2 DEF TurnInv
    <3> QED BY <2>2, <3>3
  <2>8. CASE TimerPublishes(n)
    <3>1. /\ t.due > 0 /\ ackTimer'[n] = Told(t)
          /\ backoffIn'[n] = Append(backoffIn[n], t.waiting)
          /\ UNCHANGED <<txInfo, backoffs, backoffInfo, inbox>>
      BY <2>8 DEF TimerPublishes, TypeOK, idleVars
    <3>2. Owed(ackTimer'[n]) = 0 /\ Owed(t) = 1
      BY <1>2, <1>3, <3>1, TimerRuns
    <3>3. /\ txInfo'[n] = <<>> /\ backoffIn'[n] = <<sending[n]>> /\ backoffs'[n] = 0
          /\ inbox'[n] = <<>> /\ ~(0 > 0) /\ Pending(n)
      <4>1. Owed(ackTimer[n]) > 0
        BY <3>2
      <4>2. /\ txInfo[n] = <<>> /\ backoffIn[n] = <<>> /\ backoffs[n] = 0 /\ inbox[n] = <<>>
        BY <1>2, <4>1, Alone
      <4>3. ackTimer[n].waiting = sending[n] /\ Pending(n)
        BY <1>1, <4>1, Zenon DEF TurnInv
      <4>4. backoffIn'[n] = <<sending[n]>>
        BY <3>1, <4>2, <4>3
      <4> QED BY <3>1, <4>2, <4>3, <4>4
    <3>4. TurnInv(n)'
      BY <2>1, <2>3, <3>2, <3>3 DEF TurnInv
    <3> QED BY <2>2, <3>4
  <2>9. CASE TimerEnds(n)
    <3>1. /\ t.ending > 0 /\ ackTimer'[n] = Ended(t)
          /\ UNCHANGED <<txInfo, backoffIn, backoffs, backoffInfo, inbox>>
      BY <2>9 DEF TimerEnds, TypeOK, idleVars, backoffVars
    <3>2. Owed(ackTimer'[n]) = 0 /\ ~(0 > 0)
      BY <1>2, <1>3, <3>1, TimerRuns
    <3>3. TurnInv(n)'
      BY <1>1, <2>1, <2>3, <3>1, <3>2 DEF TurnInv
    <3> QED BY <2>2, <3>3
  <2>10. CASE StartBackoff(n)
    <3>1. /\ backoffIn[n] # <<>> /\ backoffIn'[n] = Tail(backoffIn[n])
          /\ backoffInfo'[n] = Head(backoffIn[n])
          /\ UNCHANGED <<txInfo, ackTimer, inbox>>
      BY <2>10 DEF StartBackoff, TypeOK, idleVars, timeoutVars
    <3>2. backoffIn[n] = <<sending[n]>> /\ Pending(n)
      BY <1>1, <3>1 DEF TurnInv
    <3>3. /\ txInfo'[n] = <<>> /\ backoffIn'[n] = <<>> /\ Owed(ackTimer'[n]) = 0
          /\ inbox'[n] = <<>> /\ backoffInfo'[n] = sending[n] /\ ~(0 > 0)
      BY <1>2, <3>1, <3>2, Alone
    <3>4. TurnInv(n)'
      BY <2>1, <2>3, <3>2, <3>3 DEF TurnInv
    <3> QED BY <2>2, <3>4
  <2>11. CASE BackoffEnds(n)
    <3>1. /\ backoffs[n] > 0 /\ backoffs'[n] = backoffs[n] - 1
          /\ inbox'[n] = Append(inbox[n], [type |-> "data", info |-> backoffInfo[n]])
          /\ UNCHANGED <<txInfo, ackTimer, backoffIn>>
      BY <2>11 DEF BackoffEnds, TypeOK, timeoutVars
    <3>2. /\ txInfo'[n] = <<>> /\ backoffIn'[n] = <<>> /\ Owed(ackTimer'[n]) = 0
          /\ backoffs[n] = 1 /\ inbox[n] = <<>> /\ ~(0 > 0)
      BY <1>2, <3>1, Alone
    <3>3. backoffInfo[n] = sending[n] /\ Pending(n)
      BY <1>1, <3>1 DEF TurnInv
    <3>4. inbox'[n] = <<Verdict(n, "data")>> /\ backoffs'[n] = 0
      BY <3>1, <3>2, <3>3 DEF Verdict
    <3>5. TurnInv(n)'
      BY <2>1, <2>3, <3>2, <3>3, <3>4 DEF TurnInv
    <3> QED BY <2>2, <3>5
  <2> QED BY <1>8, <2>4, <2>5, <2>6, <2>7, <2>8, <2>9, <2>10, <2>11
          DEF Acts, Works, Timer, Backoff
<1> QED BY <1>5, <1>6, <1>7, <1>8 DEF Idle

\* A step of one station keeps what holds of both, and the frames are sent in
\* the order of their numbers.
LEMMA NodeStep ==
    ASSUME TypeOK, TypeOK', NEW n \in Node, Acts(n), \A m \in Node : NodeInv(m)
    PROVE  \A m \in Node : NodeInv(m)' /\ sending'[m].frame >= sending[m].frame
<1>1. NodeInv(n)' /\ sending'[n].frame >= sending[n].frame
  <2>1. NodeInv(n)
    OBVIOUS
  <2> QED BY <2>1, BaseStep, CountStep, OrderlyStep DEF NodeInv
<1>2. ASSUME NEW m \in Node, m # n
      PROVE  NodeInv(m)' /\ sending'[m].frame >= sending[m].frame
  <2>1. Local(m)' = Local(m)
    BY <1>2, Elsewhere
  <2>2. sending'[m] = sending[m] /\ sending[m].frame \in Nat
    BY <2>1, LocalTypes DEF Local
  <2> QED BY <2>1, <2>2, NodeKept
<1> QED BY <1>1, <1>2

-----------------------------------------------------------------------------
(* What the radio carries. *)

\* What a frame says stays true: frame numbers only grow, and what has been
\* received stays received.
LEMMA StillGood ==
    ASSUME TypeOK, TypeOK', NEW m \in Node, NEW f \in AirFrame, Good(m, f),
           \A p \in Node : /\ sending'[p].frame >= sending[p].frame
                           /\ received[p] \subseteq received'[p]
    PROVE  Good(m, f)'
<1>1. f.frame \in Nat
  BY BoundsAssumption DEF AirFrame, Payload
<1>2. /\ sending[m].frame \in Nat /\ sending[Peer(m)].frame \in Nat
      /\ sending'[m].frame \in Nat /\ sending'[Peer(m)].frame \in Nat
  <2>1. sending \in [Node -> Info] /\ sending' \in [Node -> Info]
    BY DEF TypeOK
  <2>2. \A p \in Node : sending[p] \in Info /\ sending'[p] \in Info
    BY <2>1
  <2>3. \A i \in Info : i.frame \in Nat
    BY BoundsAssumption DEF Info
  <2> QED BY <2>2, <2>3, PeerIsNode
<1>3. /\ sending'[m].frame >= sending[m].frame
      /\ sending'[Peer(m)].frame >= sending[Peer(m)].frame
      /\ received[Peer(m)] \subseteq received'[Peer(m)]
  BY PeerIsNode
<1>4. f.type = "data" => f.frame <= sending'[Peer(m)].frame
  BY <1>1, <1>2, <1>3 DEF Good
<1>5. f.type = "ack" => f.frame <= sending'[m].frame /\ f.frame \in received'[Peer(m)]
  BY <1>1, <1>2, <1>3 DEF Good
<1> QED BY <1>4, <1>5 DEF Good

\* A frame leaves the air, or joins it.
LEMMA ItemsOfAir ==
    /\ \A q \in Seq(AirFrame) : Items(q) \subseteq AirFrame
    /\ \A q \in Seq(AirFrame) :
          q # <<>> => Items(Tail(q)) \subseteq Items(q) /\ Head(q) \in Items(q)
    /\ \A q \in Seq(AirFrame), f \in AirFrame : Items(OnAir(q, f)) \subseteq Items(q) \union {f}
<1>1. \A q \in Seq(AirFrame) : Items(q) \subseteq AirFrame
  BY ElementOfSeq DEF Items
<1>2. ASSUME NEW q \in Seq(AirFrame), q # <<>>
      PROVE  Items(Tail(q)) \subseteq Items(q) /\ Head(q) \in Items(q)
  <2> DEFINE p == Tail(q)
  <2>1. /\ Len(p) = Len(q) - 1 /\ \A i \in 1 .. Len(p) : p[i] = q[i + 1]
        /\ Len(q) \in Nat /\ Len(q) >= 1 /\ Head(q) = q[1]
    BY <1>2, HeadTailProperties
  <2> HIDE DEF p
  <2>2. ASSUME NEW i \in 1 .. Len(p) PROVE p[i] \in Items(q)
    <3>1. i + 1 \in 1 .. Len(q) /\ p[i] = q[i + 1]
      BY <2>1
    <3> QED BY <3>1 DEF Items
  <2>3. Head(q) \in Items(q)
    BY <2>1 DEF Items
  <2> QED BY <2>2, <2>3 DEF Items, p
<1>3. ASSUME NEW q \in Seq(AirFrame), NEW f \in AirFrame
      PROVE  Items(OnAir(q, f)) \subseteq Items(q) \union {f}
  <2> DEFINE p == Append(q, f)
  <2>1. /\ Len(p) = Len(q) + 1 /\ \A i \in 1 .. Len(q) : p[i] = q[i]
        /\ Len(q) \in Nat /\ p[Len(q) + 1] = f
    BY AppendProperties
  <2> HIDE DEF p
  <2>2. Items(p) \subseteq Items(q) \union {f}
    BY <2>1 DEF Items
  <2> QED BY <2>2 DEF OnAir, p
<1> QED BY <1>1, <1>2, <1>3

\* The frames on the air go on, and good ones join them.
LEMMA AirGrows ==
    ASSUME TypeOK, TypeOK', NEW m \in Node, AirInv(m),
           \A p \in Node : /\ sending'[p].frame >= sending[p].frame
                           /\ received[p] \subseteq received'[p],
           \A f \in Items(air'[m]) : f \in Items(air[m]) \/ Good(m, f)'
    PROVE  AirInv(m)'
<1>1. air[m] \in Seq(AirFrame)
  BY GlobalTypes
<1>2. \A f \in Items(air[m]) : f \in AirFrame /\ Good(m, f)
  BY <1>1, ItemsOfAir DEF AirInv
<1>3. \A f \in AirFrame : Good(m, f) => Good(m, f)'
  BY StillGood
<1> QED BY <1>2, <1>3 DEF AirInv

\* A frame that is sent is good for the peer.
LEMMA SentIsGood ==
    ASSUME TypeOK, TypeOK', NEW n \in Node, \A m \in Node : AirInv(m),
           \A p \in Node : sending'[p].frame >= sending[p].frame,
           UNCHANGED received,
           NEW info, info.frame \in Payload, DataOut(n, info)
    PROVE  \A m \in Node : AirInv(m)'
<1>1. /\ sending'[n] = info
      /\ air' = [air EXCEPT ![Peer(n)] = OnAir(@, DataOnAir(info.frame))]
  BY DEF DataOut, TypeOK
<1>2. PICK g : g = DataOnAir(info.frame)
  OBVIOUS
<1>3. g \in AirFrame /\ g.type = "data" /\ g.frame = info.frame
      /\ g.index = g.frame % IndexMod
  <2>1. g \in AirFrame
    BY <1>2, AirTyped
  <2> QED BY <1>2, <2>1 DEF DataOnAir
<1>4. Good(Peer(n), g)'
  <2>1. Peer(Peer(n)) = n /\ info.frame <= info.frame
    BY PeerIsNode, BoundsAssumption DEF Payload
  <2>2. g.frame <= sending'[Peer(Peer(n))].frame
    BY <1>1, <1>3, <2>1
  <2> QED BY <1>3, <2>2 DEF Good, Peer
<1>5. ASSUME NEW m \in Node PROVE AirInv(m)'
  <2>1. \A f \in Items(air'[m]) : f \in Items(air[m]) \/ Good(m, f)'
    <3>1. CASE m = Peer(n)
      <4>1. air'[m] = OnAir(air[m], g) /\ air[m] \in Seq(AirFrame)
        BY <1>1, <1>2, <3>1, GlobalTypes
      <4>2. Items(air'[m]) \subseteq Items(air[m]) \union {g}
        BY <1>3, <4>1, ItemsOfAir
      <4> QED BY <1>4, <3>1, <4>2
    <3>2. CASE m # Peer(n)
      <4>1. air'[m] = air[m]
        BY <1>1, <3>2, GlobalTypes
      <4> QED BY <4>1
    <3> QED BY <3>1, <3>2
  <2> QED BY <2>1, AirGrows
<1> QED BY <1>5

\* A frame that is received leaves the air, and the acknowledgement of data is
\* good for the peer.
LEMMA ReceivedIsGood ==
    ASSUME TypeOK, TypeOK', NEW n \in Node, \A m \in Node : AirInv(m),
           UNCHANGED sending, ReceiveData(n)
    PROVE  \A m \in Node : AirInv(m)'
<1>1. PICK f : f = Head(air[n])
  OBVIOUS
<1>2. PICK g : g = AckOnAir(f)
  OBVIOUS
<1>3. /\ air[n] # <<>> /\ f.type = "data"
      /\ received' = [received EXCEPT ![n] = @ \union {f.frame}]
      /\ air' = [air EXCEPT ![n] = Tail(@), ![Peer(n)] = OnAir(@, g)]
  BY <1>1, <1>2 DEF ReceiveData
<1>4. /\ f \in AirFrame /\ Good(n, f) /\ air[n] \in Seq(AirFrame) /\ g \in AirFrame
      /\ Items(Tail(air[n])) \subseteq Items(air[n])
  <2>1. air[n] \in Seq(AirFrame)
    BY GlobalTypes
  <2>2. f \in Items(air[n]) /\ f \in AirFrame /\ Items(Tail(air[n])) \subseteq Items(air[n])
    BY <1>1, <1>3, <2>1, ItemsOfAir, AirTyped
  <2> QED BY <1>2, <2>1, <2>2, AirTyped DEF AirInv
<1>5. Peer(n) \in Node /\ Peer(n) # n /\ Peer(Peer(n)) = n
  BY PeerIsNode
<1>6. \A p \in Node : /\ sending'[p].frame >= sending[p].frame
                      /\ received[p] \subseteq received'[p]
  <2>1. \A p \in Node : sending'[p].frame >= sending[p].frame
    BY LocalTypes
  <2>2. \A p \in Node : received[p] \subseteq received'[p]
    BY <1>3 DEF TypeOK
  <2> QED BY <2>1, <2>2
<1>7. Good(Peer(n), g)'
  <2>1. /\ g.type = "ack" /\ g.frame = f.frame /\ g.index = f.frame % IndexMod
        /\ f.frame <= sending[Peer(n)].frame
    BY <1>2, <1>3, <1>4 DEF Good, AckOnAir
  <2>2. f.frame \in received'[n]
    BY <1>3 DEF TypeOK
  <2>3. g.frame \in received'[Peer(Peer(n))] /\ g.frame <= sending'[Peer(n)].frame
    BY <1>5, <2>1, <2>2
  <2> QED BY <2>1, <2>3 DEF Good, Peer
<1>8. ASSUME NEW m \in Node PROVE AirInv(m)'
  <2>1. \A h \in Items(air'[m]) : h \in Items(air[m]) \/ Good(m, h)'
    <3>1. CASE m = Peer(n)
      <4>1. air'[m] = OnAir(air[m], g) /\ air[m] \in Seq(AirFrame)
        BY <1>3, <1>5, <3>1, GlobalTypes
      <4>2. Items(air'[m]) \subseteq Items(air[m]) \union {g}
        BY <1>4, <4>1, ItemsOfAir
      <4> QED BY <1>7, <3>1, <4>2
    <3>2. CASE m = n
      <4>1. air'[m] = Tail(air[n])
        BY <1>3, <1>5, <3>2, GlobalTypes
      <4> QED BY <1>4, <3>2, <4>1
    <3> QED BY <3>1, <3>2, PeerIsNode
  <2> QED BY <1>6, <2>1, AirGrows
<1> QED BY <1>8

\* Every step keeps the radio's frames good.
LEMMA AirStep ==
    ASSUME TypeOK, TypeOK', NEW n \in Node, \A m \in Node : AirInv(m), Acts(n),
           BaseInv(n),
           \A p \in Node : sending'[p].frame >= sending[p].frame
    PROVE  \A m \in Node : AirInv(m)'
<1>1. CASE air' = air /\ UNCHANGED received
  BY <1>1, AirGrows
<1>2. CASE /\ air[n] # <<>> /\ air' = [air EXCEPT ![n] = Tail(@)]
           /\ UNCHANGED received
  <2>1. ASSUME NEW m \in Node PROVE AirInv(m)'
    <3>1. Items(air'[m]) \subseteq Items(air[m])
      <4>1. air[m] \in Seq(AirFrame) /\ air'[m] \in {air[m], Tail(air[m])}
            /\ (m = n => air'[m] = Tail(air[m])) /\ (m # n => air'[m] = air[m])
        BY <1>2, GlobalTypes
      <4> QED BY <1>2, <4>1, ItemsOfAir
    <3> QED BY <1>2, <3>1, AirGrows
  <2> QED BY <2>1
<1>3. CASE UNCHANGED received /\ \E info : info.frame \in Payload /\ DataOut(n, info)
  BY <1>3, SentIsGood
<1>4. CASE UNCHANGED received /\ (NextSent(n) \/ Idled(n))
  <2>1. CASE NextSent(n)
    BY <1>3, <1>4, <2>1 DEF NextSent
  <2>2. CASE Idled(n)
    BY <1>1, <1>4, <2>2 DEF Idled
  <2> QED BY <1>4, <2>1, <2>2
<1>5. CASE AppPayload(n)
  <2>1. UNCHANGED received
    BY <1>5 DEF AppPayload
  <2> QED BY <1>1, <1>4, <1>5, <2>1, PayloadMoves DEF BaseInv
<1>6. CASE IdleRetry(n)
  <2>1. UNCHANGED received
    BY <1>6 DEF IdleRetry
  <2>2. \/ NextSent(n) \/ Idled(n)
        \/ \E info : info.frame \in Payload /\ DataOut(n, info)
    BY <1>6, RetryMoves
  <2> QED BY <1>3, <1>4, <2>1, <2>2
<1>7. CASE IdleAck(n)
  <2>1. UNCHANGED received
    BY <1>7 DEF IdleAck
  <2> QED BY <1>4, <1>7, <2>1, AckMoves
<1>8. CASE ReceiveData(n)
  <2>1. UNCHANGED sending
    BY <1>8 DEF ReceiveData
  <2> QED BY <1>8, <2>1, ReceivedIsGood
<1>9. CASE ReceiveAck(n)
  BY <1>2, <1>9 DEF ReceiveAck
<1>10. CASE Lose(n)
  BY <1>2, <1>10 DEF Lose
<1>11. CASE StartTimeout(n) \/ Timer(n) \/ Backoff(n)
  BY <1>1, <1>11 DEF StartTimeout, Timer, TimerDecides, TimerPublishes, TimerEnds, Backoff,
                     StartBackoff, BackoffEnds
<1> QED BY <1>5, <1>6, <1>7, <1>8, <1>9, <1>10, <1>11 DEF Acts, Works, Idle

-----------------------------------------------------------------------------
(* Acknowledgements, and the invariant. *)

\* The frame whose acknowledgement stops the timer is the one waited for: frame
\* numbers up to it are on the air, and it is its own index in the header.
LEMMA MatchIsMine ==
    ASSUME TypeOK, NEW n \in Node, NodeInv(n), AirInv(n), Orderly(n), air[n] # <<>>,
           Head(air[n]).type = "ack", Matches(n, Head(air[n])), ~Past(ackTimer[n])
    PROVE  ackTimer[n].waiting = sending[n] /\ sending[n].frame \in received[Peer(n)]
<1> DEFINE f == Head(air[n])
           i0 == sending[n].frame
<1>1. f \in AirFrame /\ Good(n, f)
  <2>1. air[n] \in Seq(AirFrame)
    BY GlobalTypes
  <2> QED BY <2>1, ItemsOfAir, AirTyped DEF AirInv
<1>2. /\ f.index = f.frame % IndexMod /\ f.frame <= i0 /\ f.frame \in received[Peer(n)]
      /\ f.frame \in Nat
  BY <1>1, BoundsAssumption DEF Good, AirFrame, Payload
<1>3. ackTimer[n].waiting = sending[n]
  <2>1. ackTimer[n].set /\ TurnInv(n) /\ OneThread(ackTimer[n])
    BY DEF Matches, NodeInv, OrderlyInv, CountInv, Orderly
  <2>2. Owed(ackTimer[n]) = 1
    BY <2>1, LocalTypes, TimerKilled
  <2>3. Owed(ackTimer[n]) > 0
    BY <2>2
  <2> QED BY <2>1, <2>3, Zenon DEF TurnInv
<1>4. i0 \in Nat /\ f.index = i0
  BY <1>3, LocalTypes DEF Matches
<1> DEFINE g == f.frame
<1> HIDE DEF f, i0, g
<1>5. g \in Nat /\ i0 \in Nat /\ i0 = g % IndexMod /\ g <= i0
  BY <1>2, <1>4 DEF g
<1>6. g % IndexMod <= g
  BY <1>5, IndexAssumption
<1>7. i0 = g
  BY <1>5, <1>6
<1> QED BY <1>2, <1>3, <1>7 DEF g, i0

\* What is counted as successful has reached the peer.
LEMMA AckStep ==
    ASSUME TypeOK, NEW n \in Node, Acts(n),
           \A m \in Node : NodeInv(m) /\ AirInv(m) /\ AckInv(m)
    PROVE  \A m \in Node : AckInv(m)'
<1>1. \A m \in Node : received[m] \subseteq received'[m]
  <2>1. CASE ReceiveData(n)
    BY <2>1 DEF ReceiveData, TypeOK
  <2>2. CASE ~ReceiveData(n)
    <3>1. UNCHANGED received
      BY <2>2 DEF Acts, Works, Idle, Timer, Backoff, AppPayload, IdleRetry, IdleAck, ReceiveAck,
                  Lose, StartTimeout, TimerDecides, TimerPublishes, TimerEnds,
                  StartBackoff, BackoffEnds
    <3> QED BY <3>1
  <2> QED BY <2>1, <2>2
<1>2. ASSUME NEW m \in Node, m # n PROVE AckInv(m)'
  <2>1. Local(m)' = Local(m)
    BY <1>2, Elsewhere
  <2>2. /\ succeeded'[m] = succeeded[m] /\ inbox'[m] = inbox[m]
        /\ sending'[m] = sending[m]
        /\ hurried'[m] = hurried[m] /\ crossed'[m] = crossed[m]
    BY <2>1 DEF Local
  <2>3. received[Peer(m)] \subseteq received'[Peer(m)]
    BY <1>1, PeerIsNode
  <2> QED BY <2>2, <2>3 DEF AckInv, Verdict, Orderly
<1>3. received[Peer(n)] \subseteq received'[Peer(n)]
  BY <1>1, PeerIsNode
<1> SUFFICES AckInv(n)'
  BY <1>2
<1> SUFFICES ASSUME Orderly(n)'
             PROVE  /\ succeeded'[n] \subseteq received'[Peer(n)]
                    /\ inbox'[n] = <<Verdict(n, "ack")'>> =>
                          sending'[n].frame \in received'[Peer(n)]
  BY DEF AckInv, Peer
<1>4. /\ Orderly(n) /\ NodeInv(n) /\ BaseInv(n) /\ TurnInv(n) /\ Turns(n) <= 1
      /\ succeeded[n] \subseteq received[Peer(n)]
      /\ inbox[n] = <<Verdict(n, "ack")>> => sending[n].frame \in received[Peer(n)]
  <2>1. Orderly(n)
    BY OrderlyBefore
  <2>2. hurried[n] = FALSE /\ crossed[n] = 0
    BY <2>1, LocalTypes DEF Orderly
  <2>3. Turns(n) <= 1
    BY <2>2 DEF NodeInv, CountInv
  <2> QED BY <2>1, <2>3 DEF NodeInv, OrderlyInv, AckInv
<1>5. CASE IdleAck(n)
  <2>1. inbox[n] # <<>> /\ Head(inbox[n]).type = "ack" /\ inbox'[n] = Tail(inbox[n])
    BY <1>4, <1>5, AckMoves
  <2>2. inbox[n] = <<Verdict(n, "ack")>> /\ inbox'[n] = <<>>
    BY <1>4, <2>1, Judged
  <2>3. succeeded'[n] = succeeded[n] \union {sending[n].frame}
    BY <1>5 DEF IdleAck, TypeOK
  <2> QED BY <1>3, <1>4, <2>2, <2>3
<1>6. CASE ReceiveAck(n) /\ Matches(n, Head(air[n]))
  <2>1. crossed'[n] = crossed[n] + Bit(Past(ackTimer[n]))
    BY <1>6 DEF ReceiveAck, TypeOK
  <2>2. ~Past(ackTimer[n])
    BY <1>4, <2>1 DEF Orderly, Bit
  <2>3. sending[n].frame \in received[Peer(n)]
    BY <1>4, <1>6, <2>2, MatchIsMine DEF ReceiveAck
  <2>4. UNCHANGED <<sending, succeeded>>
    BY <1>6 DEF ReceiveAck, outcome
  <2> QED BY <1>3, <1>4, <2>3, <2>4
<1>7. CASE IdleRetry(n)
  <2>1. inbox[n] # <<>> /\ inbox'[n] = Tail(inbox[n]) /\ succeeded' = succeeded
    BY <1>4, <1>7, RetryMoves DEF IdleRetry
  <2>2. inbox'[n] = <<>>
    BY <1>4, <2>1, Judged
  <2>3. inbox'[n] # <<Verdict(n, "ack")'>>
    <3> HIDE DEF Verdict
    <3> QED BY <2>2
  <2> QED BY <1>3, <1>4, <2>1, <2>3
<1>8. CASE BackoffEnds(n)
  <2>1. /\ inbox'[n] = Append(inbox[n], [type |-> "data", info |-> backoffInfo[n]])
        /\ succeeded' = succeeded /\ backoffs[n] > 0
    BY <1>8 DEF BackoffEnds, TypeOK, outcome
  <2>2. inbox[n] = <<>>
    BY <1>4, <2>1, Alone
  <2>3. inbox'[n] = <<[type |-> "data", info |-> backoffInfo[n]]>>
    BY <2>1, <2>2
  <2>4. inbox'[n] # <<Verdict(n, "ack")'>>
    <3>1. inbox'[n][1].type = "data" /\ Verdict(n, "ack")'.type = "ack"
      BY <2>3 DEF Verdict
    <3> QED BY <3>1
  <2> QED BY <1>3, <1>4, <2>1, <2>4
<1>9. CASE AppPayload(n)
  <2>1. UNCHANGED <<inbox, succeeded>>
    BY <1>9 DEF AppPayload, outcome
  <2>2. CASE MaySend(n)
    <3>1. inbox[n] = <<>>
      BY <1>4, <2>2, Alone DEF MaySend
    <3> QED BY <1>3, <1>4, <2>1, <3>1
  <2>3. CASE ~MaySend(n)
    <3>1. UNCHANGED sending
      BY <1>9, <2>3 DEF AppPayload
    <3> QED BY <1>3, <1>4, <2>1, <3>1 DEF Verdict
  <2> QED BY <2>2, <2>3
<1>10. CASE UNCHANGED <<sending, inbox, succeeded>>
  BY <1>3, <1>4, <1>10 DEF Verdict
<1>11. ReceiveAck(n) /\ ~Matches(n, Head(air[n])) => UNCHANGED <<sending, inbox, succeeded>>
  BY DEF ReceiveAck, outcome
<1>12. ReceiveData(n) \/ Lose(n) \/ StartTimeout(n) \/ Timer(n) \/ StartBackoff(n) =>
         UNCHANGED <<sending, inbox, succeeded>>
  BY DEF ReceiveData, Lose, StartTimeout, Timer, TimerDecides, TimerPublishes, TimerEnds,
         StartBackoff, outcome, idleVars
<1> QED BY <1>5, <1>6, <1>7, <1>8, <1>9, <1>10, <1>11, <1>12 DEF Acts, Works, Idle, Backoff

\* AlohaInv is inductive, with the types.
LEMMA AlohaInit == Init => TypeOK /\ AlohaInv
<1> SUFFICES ASSUME Init PROVE TypeOK /\ AlohaInv
  OBVIOUS
<1>1. NoInfo \in Info /\ 0 \in 0 .. MaxFrames
  BY BoundsAssumption, LimitAssumption DEF NoInfo, Info
<1>2. TypeOK
  <2>1. /\ sending \in [Node -> Info] /\ backoffInfo \in [Node -> Info]
        /\ inIdle \in [Node -> BOOLEAN]
    BY <1>1 DEF Init
  <2>2. ackTimer \in [Node -> Timers(Info)]
    BY <1>1 DEF Init, NoTimer, Timers
  <2>3. /\ txBuff \in [Node -> Seq(Payload)] /\ txInfo \in [Node -> Seq(Info)]
        /\ backoffIn \in [Node -> Seq(Info)]
        /\ inbox \in [Node -> Seq(Inbox)] /\ air \in [Node -> Seq(AirFrame)]
    BY DEF Init
  <2>4. /\ backoffs \in [Node -> Nat] /\ crossed \in [Node -> Nat]
        /\ offered \in [Node -> 0 .. MaxFrames] /\ sent \in [Node -> [Payload -> Nat]]
    BY <1>1 DEF Init
  <2>5. /\ received \in [Node -> SUBSET Payload] /\ succeeded \in [Node -> SUBSET Payload]
        /\ abandoned \in [Node -> SUBSET Payload]
    BY DEF Init
  <2>6. /\ doubled \in [Node -> BOOLEAN] /\ hurried \in [Node -> BOOLEAN]
        /\ stolen \in [Node -> BOOLEAN] /\ missed \in BOOLEAN
    BY DEF Init
  <2> QED BY <2>1, <2>2, <2>3, <2>4, <2>5, <2>6 DEF TypeOK, AirFrame, Inbox
<1>3. ASSUME NEW n \in Node PROVE NodeInv(n) /\ AckInv(n) /\ AirInv(n)
  <2>1. /\ inIdle[n] = TRUE /\ txBuff[n] = <<>> /\ sending[n] = NoInfo /\ inbox[n] = <<>>
        /\ txInfo[n] = <<>> /\ ackTimer[n] = NoTimer(NoInfo) /\ backoffIn[n] = <<>>
        /\ backoffs[n] = 0 /\ air[n] = <<>>
    BY <1>3 DEF Init
  <2>2. /\ offered[n] = 0 /\ sent[n] = [i \in Payload |-> 0]
        /\ succeeded[n] = {} /\ abandoned[n] = {} /\ doubled[n] = FALSE
        /\ crossed[n] = 0 /\ hurried[n] = FALSE
    BY <1>3 DEF Init
  <2>3. /\ ~ackTimer[n].set /\ ackTimer[n].counting = 0 /\ ackTimer[n].due = 0
        /\ ackTimer[n].ending = 0
    BY <2>1 DEF NoTimer
  <2>4. OneThread(ackTimer[n]) /\ ~Alive(ackTimer[n]) /\ Owed(ackTimer[n]) = 0
    BY <2>3 DEF OneThread, Alive, Owed, Bit
  <2>5. BaseInv(n)
    BY <2>1, <2>2, <2>3, <2>4 DEF BaseInv, StartedInv, BufferInv, NoInfo
  <2>6. CountInv(n)
    <3>1. Turns(n) = 1
      BY <2>1, <2>4 DEF Turns, Bit
    <3> QED BY <2>2, <2>4, <3>1 DEF CountInv
  <2>7. OrderlyInv(n)
    <3>1. TurnInv(n)
      <4>1. ~(0 > 0)
        OBVIOUS
      <4> QED BY <2>1, <2>4, <4>1 DEF TurnInv
    <3>2. SentInv(n)
      <4>1. \A i \in Payload : sent[n][i] <= MaxTransmissions
        BY <2>2, LimitAssumption
      <4>2. ~(sending[n].frame > 0)
        BY <2>1 DEF NoInfo
      <4> QED BY <4>1, <4>2 DEF SentInv
    <3>3. VerdictInv(n)
      BY <2>2 DEF VerdictInv
    <3> QED BY <3>1, <3>2, <3>3 DEF OrderlyInv
  <2>8. AirInv(n)
    BY <2>1 DEF AirInv, Items
  <2>9. AckInv(n)
    <3>1. inbox[n] # <<Verdict(n, "ack")>>
      BY <2>1
    <3> QED BY <2>2, <3>1 DEF AckInv
  <2> QED BY <2>5, <2>6, <2>7, <2>8, <2>9 DEF NodeInv
<1> QED BY <1>2, <1>3 DEF AlohaInv

LEMMA AlohaStep ==
    ASSUME TypeOK, AlohaInv, [Next]_vars
    PROVE  TypeOK' /\ AlohaInv'
<1>1. ASSUME NEW n \in Node, Acts(n) PROVE TypeOK' /\ AlohaInv'
  <2>1. \A m \in Node : NodeInv(m) /\ AirInv(m) /\ AckInv(m) /\ BaseInv(m)
    BY DEF AlohaInv, NodeInv
  <2>2. TypeOK'
    BY <1>1, <2>1, TypeStep
  <2>3. \A m \in Node : NodeInv(m)' /\ sending'[m].frame >= sending[m].frame
    BY <1>1, <2>1, <2>2, NodeStep
  <2>4. \A m \in Node : AirInv(m)'
    BY <1>1, <2>1, <2>2, <2>3, AirStep
  <2>5. \A m \in Node : AckInv(m)'
    BY <1>1, <2>1, AckStep
  <2> QED BY <2>2, <2>3, <2>4, <2>5 DEF AlohaInv
<1>2. CASE UNCHANGED vars
  <2>1. /\ UNCHANGED <<inIdle, txBuff, sending, inbox, txInfo, ackTimer>>
        /\ UNCHANGED <<backoffIn, backoffs, backoffInfo, air, offered, sent>>
        /\ UNCHANGED <<received, succeeded, doubled, abandoned, hurried, crossed>>
        /\ UNCHANGED <<stolen, missed>>
    BY <1>2 DEF vars, idleVars, timeoutVars, backoffVars, outcome, marks
  <2>2. TypeOK'
    BY <2>1 DEF TypeOK
  <2>3. ASSUME NEW m \in Node PROVE NodeInv(m)' /\ AirInv(m)' /\ AckInv(m)'
    <3>1. NodeInv(m) /\ AirInv(m) /\ AckInv(m)
      BY <2>3 DEF AlohaInv
    <3>2. NodeInv(m)'
      <4>1. Local(m)' = Local(m)
        BY <2>1 DEF Local
      <4> QED BY <2>3, <3>1, <4>1, NodeKept
    <3>3. AirInv(m)'
      BY <2>1, <3>1 DEF AirInv, Good
    <3>4. AckInv(m)'
      BY <2>1, <3>1 DEF AckInv, Verdict, Orderly
    <3> QED BY <3>2, <3>3, <3>4
  <2> QED BY <2>2, <2>3 DEF AlohaInv
<1> QED BY <1>1, <1>2 DEF Next

\* AlohaInv holds throughout.
LEMMA AlohaCorrect == Spec => [](TypeOK /\ AlohaInv)
<1>1. Init => TypeOK /\ AlohaInv
  BY AlohaInit
<1>2. TypeOK /\ AlohaInv /\ [Next]_vars => TypeOK' /\ AlohaInv'
  BY AlohaStep
<1> QED BY <1>1, <1>2, PTL DEF Spec

-----------------------------------------------------------------------------
(* The theorems. *)

\* Every value of the stations and the radio has its type; in particular idle
\* sends no info with a number beyond the limit, whichever verdict it retries
\* on.
THEOREM AlohaTypeCorrect == Spec => []TypeOK
<1> QED BY AlohaCorrect, PTL

\* As long as no start comes beside an old countdown, the transmissions without
\* a verdict are one, and one more for each acknowledgement that crossed with
\* the timeout of its transmission: whatever the radio loses, and however the
\* threads of the timer and the backoff are scheduled.
THEOREM StopAndWait == Spec => []OneOutstanding
<1>1. AlohaInv => OneOutstanding
  BY DEF AlohaInv, NodeInv, CountInv, OneOutstanding
<1> QED BY <1>1, AlohaCorrect, PTL

\* A station whose idleness was not taken away by data has a turn: it is idle,
\* or a frame is on the way to a verdict, even after verdicts crossed.
THEOREM TurnNeverLost == Spec => []TurnKept
<1>1. AlohaInv => TurnKept
  BY DEF AlohaInv, NodeInv, CountInv, TurnKept
<1> QED BY <1>1, AlohaCorrect, PTL

\* A station that has had one verdict on each transmission counts no frame
\* twice and none it gave up, and sends none more often than the limit allows.
THEOREM FrameCountedOnce == Spec => []CountedOnce
<1>1. AlohaInv => CountedOnce
  BY DEF AlohaInv, NodeInv, OrderlyInv, VerdictInv, SentInv, CountedOnce
<1> QED BY <1>1, AlohaCorrect, PTL

\* To such a station, every frame counted as successful has reached the peer,
\* although idle takes the verdict without a look at its index.
THEOREM SuccessIsReceived == Spec => []SuccessMeansReceived
<1>1. AlohaInv => SuccessMeansReceived
  BY DEF AlohaInv, AckInv, SuccessMeansReceived
<1> QED BY <1>1, AlohaCorrect, PTL
=============================================================================
