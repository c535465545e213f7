----------------------------- MODULE RrrmProofs -----------------------------
(***************************************************************************)
(* Theorems about Rrrm, for every value of its constants.                   *)
(*                                                                          *)
(* Beyond type correctness: while only one node has seen radar and no link  *)
(* has fallen silent, both nodes come to rest on one channel.  There, a is  *)
(* the node that may see radar, b its peer.  The theorem needs an antenna   *)
(* control to ask, though not an antenna that turns; if it turns, it points *)
(* along the channel.                                                       *)
(***************************************************************************)
EXTENDS Rrrm, SequenceTheorems, TLAPS

-----------------------------------------------------------------------------
(* Lemmas about the operators. *)

\* Each node has a peer, which is the other node.
LEMMA PeerIsNode == \A n \in Node : Peer(n) \in Node /\ Peer(n) # n
BY NodeAssumption DEF Peer

\* After the last channel comes the first one.
LEMMA AfterTyped == \A c \in Channel : After(c) \in Channel
BY ChannelsAssumption DEF Channel, After

\* Commands and acceptances are frames.
LEMMA FrameTypes ==
    /\ \A c \in Channel, i \in Nat : Switch(c, i) \in Frame
    /\ \A i \in Nat : Accept(i) \in Frame
BY ChannelsAssumption DEF Switch, Accept, Frame, Channel

\* A frame joins a link or is lost.
LEMMA OnAirTyped ==
    ASSUME NEW q \in Seq(Frame), NEW f \in Frame
    PROVE  OnAir(q, f) \in Seq(Frame)
BY AppendProperties DEF OnAir

\* What arrives is a frame.
LEMMA HeadTyped ==
    ASSUME NEW q \in Seq(Frame), q # <<>>
    PROVE  Head(q) \in Frame /\ Tail(q) \in Seq(Frame)
BY HeadTailProperties

-----------------------------------------------------------------------------
(* Type correctness. *)

\* A thread that sends or sleeps has not yet sent its last command.
CountBelow ==
    \A n \in Node : \A k \in AckThread :
        ack[n][k].pc \in {"send", "sleep"} => ack[n][k].count < Enough

TypeInv == TypeOK /\ CountBelow /\ silences <= events

Thr == [pc : AckPc, count : 0 .. Enough]
AckType == [Node -> [AckThread -> Thr]]

Moved(A, n, k, p) == [A EXCEPT ![n][k].pc = p]
Replaced(A, n, k, t) == [A EXCEPT ![n][k] = t]

\* A waiting thread goes on to line p ...
LEMMA AckMoves ==
    ASSUME NEW A \in AckType, NEW n \in Node, NEW k \in AckThread,
           NEW p \in AckPc
    PROVE  /\ Moved(A, n, k, p) \in AckType
           /\ Moved(A, n, k, p)[n][k] = [pc |-> p, count |-> A[n][k].count]
           /\ \A m \in Node : \A j \in AckThread :
                m # n \/ j # k => Moved(A, n, k, p)[m][j] = A[m][j]
<1> DEFINE t == [A[n][k] EXCEPT !.pc = p]
<1>1. A[n][k] \in Thr
  BY DEF AckType
<1>2. t = [pc |-> p, count |-> A[n][k].count] /\ t \in Thr
  BY <1>1 DEF Thr
<1>3. Moved(A, n, k, p) = [A EXCEPT ![n] = [A[n] EXCEPT ![k] = t]]
  BY DEF Moved
<1> HIDE DEF t
<1> DEFINE r == [A[n] EXCEPT ![k] = t]
<1>4. /\ r \in [AckThread -> Thr]
      /\ r[k] = t
      /\ \A j \in AckThread : j # k => r[j] = A[n][j]
  BY <1>2 DEF AckType
<1>5. Moved(A, n, k, p) = [A EXCEPT ![n] = r]
  BY <1>3
<1> HIDE DEF r
<1>6. /\ Moved(A, n, k, p) \in AckType
      /\ Moved(A, n, k, p)[n] = r
      /\ \A m \in Node : m # n => Moved(A, n, k, p)[m] = A[m]
  BY <1>4, <1>5 DEF AckType
<1> QED
  BY <1>2, <1>4, <1>6

\* ... or is replaced as a whole.
LEMMA AckCounts ==
    ASSUME NEW A \in AckType, NEW n \in Node, NEW k \in AckThread,
           NEW t \in Thr
    PROVE  /\ Replaced(A, n, k, t) \in AckType
           /\ Replaced(A, n, k, t)[n][k] = t
           /\ \A m \in Node : \A j \in AckThread :
                m # n \/ j # k => Replaced(A, n, k, t)[m][j] = A[m][j]
BY DEF AckType, Replaced

\* A thread that goes on keeps the types if it has commands left to send.
LEMMA ThreadMoves ==
    ASSUME TypeInv, NEW n \in Node, NEW k \in AckThread, NEW p \in AckPc,
           ack' = Moved(ack, n, k, p),
           p \in {"send", "sleep"} => ack[n][k].count < Enough
    PROVE  ack' \in AckType /\ CountBelow'
<1>1. ack \in AckType
  BY DEF TypeInv, TypeOK, AckType, Thr
<1>2. /\ ack' \in AckType
      /\ ack'[n][k] = [pc |-> p, count |-> ack[n][k].count]
      /\ \A m \in Node : \A j \in AckThread :
           m # n \/ j # k => ack'[m][j] = ack[m][j]
  BY <1>1, AckMoves
<1>3. ASSUME NEW m \in Node, NEW j \in AckThread, ack'[m][j].pc \in {"send", "sleep"}
      PROVE  ack'[m][j].count < Enough
  <2>1. CASE m = n /\ j = k
    BY <1>2, <1>3, <2>1
  <2>2. CASE m # n \/ j # k
    BY <1>2, <1>3, <2>2 DEF TypeInv, CountBelow
  <2> QED
    BY <2>1, <2>2
<1> QED
  BY <1>2, <1>3 DEF CountBelow

\* The initial state has the types.
LEMMA TypeInit == Init => TypeInv
BY ChannelsAssumption, EnoughAssumption, BoundAssumption
   DEF Init, TypeInv, TypeOK, CountBelow, Channel, Nothing, NoThread, JobPc, AckPc,
       MonitorPc

\* Every action keeps the types.
LEMMA TypeStep == TypeInv /\ [Next]_vars => TypeInv'
<1> SUFFICES ASSUME TypeInv, [Next]_vars PROVE TypeInv'
  OBVIOUS
<1>1. ASSUME NEW n \in Node, Lose(n) PROVE TypeInv'
  <2>0. UNCHANGED <<state, curr, next, nextPos, ackReceived, ackThread, lastPing, pos, job, asked, joins, ack, monitor, radars, taken, silences, events>>
    BY <1>1 DEF Lose, members, threads, history
  <2>1. link' \in [Node -> Seq(Frame)]
    BY <1>1 DEF TypeInv, TypeOK, Lose
  <2> QED
    BY <2>0, <2>1 DEF TypeInv, TypeOK, CountBelow
<1>2. ASSUME NEW n \in Node, Silence(n) PROVE TypeInv'
  <2>0. UNCHANGED <<state, curr, next, nextPos, ackReceived, ackThread, pos, job, asked, joins, ack, monitor, link, radars, taken>>
    BY <1>2 DEF Silence, members, threads, history
  <2>1. lastPing' \in [Node -> {"heard", "silent"}]
    BY <1>2 DEF TypeInv, TypeOK, Silence
  <2>2. silences' \in 0 .. MaxEvents
    BY <1>2, BoundAssumption DEF TypeInv, TypeOK, Silence
  <2>3. events' \in 0 .. MaxEvents
    BY <1>2, BoundAssumption DEF TypeInv, TypeOK, Silence
  <2>4. \A m \in Node :
          radars'[m] + (IF job'[m] = "radar_next" THEN 1 ELSE 0) <= events'
    BY <1>2, <2>0, BoundAssumption DEF TypeInv, TypeOK, Silence, JobPc
  <2>5. silences' <= events'
    BY <1>2, <2>0, BoundAssumption DEF TypeInv, TypeOK, Silence
  <2> QED
    BY <2>0, <2>1, <2>2, <2>3, <2>4, <2>5 DEF TypeInv, TypeOK, CountBelow
<1>3. ASSUME NEW n \in Node, Radar(n) PROVE TypeInv'
  <2>0. UNCHANGED <<curr, next, nextPos, ackReceived, ackThread, lastPing, pos, asked, joins, ack, monitor, link, radars, taken, silences>>
    BY <1>3 DEF Radar, members, threads, history
  <2>1. state' \in [Node -> {"forward", "switch"}]
    BY <1>3 DEF TypeInv, TypeOK, Radar
  <2>2. job' \in [Node -> JobPc]
    BY <1>3 DEF TypeInv, TypeOK, Radar, JobPc
  <2>3. events' \in 0 .. MaxEvents
    BY <1>3, BoundAssumption DEF TypeInv, TypeOK, Radar
  <2>4. \A m \in Node :
          radars'[m] + (IF job'[m] = "radar_next" THEN 1 ELSE 0) <= events'
    BY <1>3, <2>0, BoundAssumption DEF TypeInv, TypeOK, Radar, JobPc
  <2>5. silences' <= events'
    BY <1>3, <2>0, BoundAssumption DEF TypeInv, TypeOK, Radar
  <2> QED
    BY <2>0, <2>1, <2>2, <2>3, <2>4, <2>5 DEF TypeInv, TypeOK, CountBelow
<1>4. ASSUME NEW n \in Node, RadarNext(n) PROVE TypeInv'
  <2>0. UNCHANGED <<state, curr, nextPos, ackReceived, ackThread, lastPing, pos, asked, joins, ack, monitor, link, taken, silences, events>>
    BY <1>4 DEF RadarNext, members, threads, history
  <2>1. next' \in [Node -> Channel]
    BY <1>4, AfterTyped DEF TypeInv, TypeOK, RadarNext
  <2>2. job' \in [Node -> JobPc]
    BY <1>4 DEF TypeInv, TypeOK, RadarNext, JobPc
  <2>3. radars' \in [Node -> 0 .. MaxEvents]
    BY <1>4, BoundAssumption DEF TypeInv, TypeOK, RadarNext
  <2>4. \A m \in Node :
          radars'[m] + (IF job'[m] = "radar_next" THEN 1 ELSE 0) <= events'
    BY <1>4, <2>0, BoundAssumption DEF TypeInv, TypeOK, RadarNext, JobPc
  <2> QED
    BY <2>0, <2>1, <2>2, <2>3, <2>4 DEF TypeInv, TypeOK, CountBelow
<1>5. ASSUME NEW n \in Node, RadarPos(n) PROVE TypeInv'
  <2>0. UNCHANGED <<state, curr, next, ackReceived, ackThread, lastPing, pos, asked, joins, ack, monitor, link, radars, taken, silences, events>>
    BY <1>5 DEF RadarPos, members, threads, history
  <2>1. nextPos' \in [Node -> Channel]
    BY <1>5 DEF TypeInv, TypeOK, RadarPos
  <2>2. job' \in [Node -> JobPc]
    BY <1>5 DEF TypeInv, TypeOK, RadarPos, JobPc
  <2>3. \A m \in Node :
          radars'[m] + (IF job'[m] = "radar_next" THEN 1 ELSE 0) <= events'
    BY <1>5, <2>0, BoundAssumption DEF TypeInv, TypeOK, RadarPos, JobPc
  <2> QED
    BY <2>0, <2>1, <2>2, <2>3 DEF TypeInv, TypeOK, CountBelow
<1>6. ASSUME NEW n \in Node, RadarAck(n) PROVE TypeInv'
  <2>0. UNCHANGED <<state, curr, next, nextPos, lastPing, pos, asked, joins, ack, monitor, link, radars, taken, silences, events>>
    BY <1>6 DEF RadarAck, members, threads, history
  <2>1. ackReceived' \in [Node -> BOOLEAN]
    BY <1>6 DEF TypeInv, TypeOK, RadarAck, NoneReceived
  <2>2. ackThread' \in [Node -> 0 .. MaxEvents]
    BY <1>6, BoundAssumption DEF TypeInv, TypeOK, RadarAck
  <2>3. job' \in [Node -> JobPc]
    BY <1>6 DEF TypeInv, TypeOK, RadarAck, JobPc
  <2>4. \A m \in Node :
          radars'[m] + (IF job'[m] = "radar_next" THEN 1 ELSE 0) <= events'
    BY <1>6, <2>0, BoundAssumption DEF TypeInv, TypeOK, RadarAck, JobPc
  <2> QED
    BY <2>0, <2>1, <2>2, <2>3, <2>4 DEF TypeInv, TypeOK, CountBelow
<1>7. ASSUME NEW n \in Node, RadarStart(n) PROVE TypeInv'
  <2>0. UNCHANGED <<state, curr, next, nextPos, ackReceived, ackThread, lastPing, pos, asked, joins, monitor, link, radars, taken, silences, events>>
    BY <1>7 DEF RadarStart, members, threads, history
  <2>1. job' \in [Node -> JobPc]
    <3>1. \/ job' = [job EXCEPT ![n] = "dead"]
          \/ job' = [job EXCEPT ![n] = "idle"]
      BY <1>7, Zenon DEF RadarStart
    <3> QED
      BY <3>1 DEF TypeInv, TypeOK, JobPc
  <2>2. \A m \in Node :
          radars'[m] + (IF job'[m] = "radar_next" THEN 1 ELSE 0) <= events'
    BY <1>7, <2>0, BoundAssumption DEF TypeInv, TypeOK, RadarStart, JobPc
  <2>3. ack' \in AckType /\ CountBelow'
    <3>1. CASE ackThread[n] = 0
      BY <1>7, <3>1 DEF RadarStart, TypeInv, TypeOK, CountBelow, AckType, Thr
    <3>2. CASE ackThread[n] # 0
      <4>1. ackThread[n] \in AckThread
        BY <3>2, BoundAssumption DEF TypeInv, TypeOK, AckThread
      <4>2. ack' = Moved(ack, n, ackThread[n], "test")
        BY <1>7, <3>2 DEF Moved, RadarStart
      <4> QED
        BY <4>1, <4>2, ThreadMoves DEF AckPc
    <3> QED
      BY <3>1, <3>2
  <2> QED
    BY <2>0, <2>1, <2>2, <2>3 DEF TypeInv, TypeOK, CountBelow, AckType, Thr
<1>8. ASSUME NEW n \in Node, Ping(n) PROVE TypeInv'
  <2>0. UNCHANGED <<state, curr, next, nextPos, ackReceived, ackThread, pos, job, asked, joins, ack, monitor, link, radars, taken, silences, events>>
    BY <1>8 DEF Ping, members, threads, history
  <2>1. lastPing' \in [Node -> {"heard", "silent"}]
    BY <1>8 DEF TypeInv, TypeOK, Ping, Hears
  <2> QED
    BY <2>0, <2>1 DEF TypeInv, TypeOK, CountBelow
<1>9. ASSUME NEW n \in Node, SwitchKnown(n) PROVE TypeInv'
  <2>0. UNCHANGED <<state, curr, next, nextPos, ackReceived, ackThread, pos, job, asked, joins, ack, monitor, radars, silences, events>>
    BY <1>9 DEF SwitchKnown, members, threads, history
  <2>1. lastPing' \in [Node -> {"heard", "silent"}]
    BY <1>9 DEF TypeInv, TypeOK, SwitchKnown, Hears, Arrives
  <2>2. link' \in [Node -> Seq(Frame)]
    BY <1>9 DEF TypeInv, TypeOK, SwitchKnown, Arrives
  <2>3. taken' \in [Node -> Nat]
    BY <1>9, HeadTyped DEF TypeInv, TypeOK, SwitchKnown, Arrives, Frame
  <2> QED
    BY <2>0, <2>1, <2>2, <2>3 DEF TypeInv, TypeOK, CountBelow
<1>10. ASSUME NEW n \in Node, SwitchAsked(n) PROVE TypeInv'
  <2>0. UNCHANGED <<curr, next, ackReceived, ackThread, pos, joins, ack, monitor, radars, silences, events>>
    BY <1>10 DEF SwitchAsked, members, threads, history
  <2>1. state' \in [Node -> {"forward", "switch"}]
    BY <1>10 DEF TypeInv, TypeOK, SwitchAsked, Arrives
  <2>2. nextPos' \in [Node -> Channel]
    BY <1>10, HeadTyped DEF TypeInv, TypeOK, SwitchAsked, Arrives, Frame
  <2>3. lastPing' \in [Node -> {"heard", "silent"}]
    BY <1>10 DEF TypeInv, TypeOK, SwitchAsked, Hears, Arrives
  <2>4. job' \in [Node -> JobPc]
    BY <1>10 DEF TypeInv, TypeOK, SwitchAsked, Arrives, JobPc
  <2>5. asked' \in [Node -> [chan : Channel, id : Nat]]
    BY <1>10, HeadTyped DEF TypeInv, TypeOK, SwitchAsked, Arrives, Frame
  <2>6. link' \in [Node -> Seq(Frame)]
    BY <1>10, OnAirTyped, FrameTypes, PeerIsNode, HeadTyped DEF TypeInv, TypeOK, SwitchAsked, Arrives, Frame
  <2>7. taken' \in [Node -> Nat]
    BY <1>10, HeadTyped DEF TypeInv, TypeOK, SwitchAsked, Arrives, Frame
  <2>8. \A m \in Node :
          radars'[m] + (IF job'[m] = "radar_next" THEN 1 ELSE 0) <= events'
    BY <1>10, <2>0, BoundAssumption DEF TypeInv, TypeOK, SwitchAsked, JobPc
  <2> QED
    BY <2>0, <2>1, <2>2, <2>3, <2>4, <2>5, <2>6, <2>7, <2>8 DEF TypeInv, TypeOK, CountBelow
<1>11. ASSUME NEW n \in Node, AcceptAgain(n) PROVE TypeInv'
  <2>0. UNCHANGED <<state, curr, next, nextPos, ackReceived, ackThread, lastPing, pos, asked, joins, ack, monitor, radars, taken, silences, events>>
    BY <1>11 DEF AcceptAgain, members, threads, history
  <2>1. job' \in [Node -> JobPc]
    BY <1>11 DEF TypeInv, TypeOK, AcceptAgain, JobPc
  <2>2. link' \in [Node -> Seq(Frame)]
    BY <1>11, OnAirTyped, FrameTypes, PeerIsNode DEF TypeInv, TypeOK, AcceptAgain, Transmit
  <2>3. \A m \in Node :
          radars'[m] + (IF job'[m] = "radar_next" THEN 1 ELSE 0) <= events'
    BY <1>11, <2>0, BoundAssumption DEF TypeInv, TypeOK, AcceptAgain, JobPc
  <2> QED
    BY <2>0, <2>1, <2>2, <2>3 DEF TypeInv, TypeOK, CountBelow
<1>12. ASSUME NEW n \in Node, SwitchSet(n) PROVE TypeInv'
  <2>0. UNCHANGED <<state, next, nextPos, ackReceived, ackThread, lastPing, pos, joins, ack, monitor, link, radars, taken, silences, events>>
    BY <1>12 DEF SwitchSet, members, threads, history
  <2>1. curr' \in [Node -> Channel]
    BY <1>12 DEF TypeInv, TypeOK, SwitchSet, TakeAsked
  <2>2. job' \in [Node -> JobPc]
    BY <1>12 DEF TypeInv, TypeOK, SwitchSet, JobPc
  <2>3. asked' \in [Node -> [chan : Channel, id : Nat]]
    BY <1>12, ChannelsAssumption DEF TypeInv, TypeOK, SwitchSet, Nothing, Channel
  <2>4. \A m \in Node :
          radars'[m] + (IF job'[m] = "radar_next" THEN 1 ELSE 0) <= events'
    BY <1>12, <2>0, BoundAssumption DEF TypeInv, TypeOK, SwitchSet, JobPc
  <2> QED
    BY <2>0, <2>1, <2>2, <2>3, <2>4 DEF TypeInv, TypeOK, CountBelow
<1>13. ASSUME NEW n \in Node, AcceptIgnored(n) PROVE TypeInv'
  <2>0. UNCHANGED <<state, curr, next, nextPos, ackReceived, ackThread, pos, job, asked, joins, ack, monitor, radars, taken, silences, events>>
    BY <1>13 DEF AcceptIgnored, members, threads, history
  <2>1. lastPing' \in [Node -> {"heard", "silent"}]
    BY <1>13 DEF TypeInv, TypeOK, AcceptIgnored, Hears, Arrives
  <2>2. link' \in [Node -> Seq(Frame)]
    BY <1>13 DEF TypeInv, TypeOK, AcceptIgnored, Arrives
  <2> QED
    BY <2>0, <2>1, <2>2 DEF TypeInv, TypeOK, CountBelow
<1>14. ASSUME NEW n \in Node, Accepted(n) PROVE TypeInv'
  <2>0. UNCHANGED <<state, curr, next, nextPos, ackThread, pos, asked, joins, ack, monitor, radars, taken, silences, events>>
    BY <1>14 DEF Accepted, members, threads, history
  <2>1. ackReceived' \in [Node -> BOOLEAN]
    BY <1>14 DEF TypeInv, TypeOK, Accepted, Arrives
  <2>2. lastPing' \in [Node -> {"heard", "silent"}]
    BY <1>14 DEF TypeInv, TypeOK, Accepted, Hears, Arrives
  <2>3. job' \in [Node -> JobPc]
    BY <1>14 DEF TypeInv, TypeOK, Accepted, Arrives, JobPc
  <2>4. link' \in [Node -> Seq(Frame)]
    BY <1>14 DEF TypeInv, TypeOK, Accepted, Arrives
  <2>5. \A m \in Node :
          radars'[m] + (IF job'[m] = "radar_next" THEN 1 ELSE 0) <= events'
    BY <1>14, <2>0, BoundAssumption DEF TypeInv, TypeOK, Accepted, JobPc
  <2> QED
    BY <2>0, <2>1, <2>2, <2>3, <2>4, <2>5 DEF TypeInv, TypeOK, CountBelow
<1>15. ASSUME NEW n \in Node, AcceptedThread(n) PROVE TypeInv'
  <2>0. UNCHANGED <<state, curr, next, nextPos, ackReceived, ackThread, lastPing, pos, asked, joins, ack, monitor, link, radars, taken, silences, events>>
    BY <1>15 DEF AcceptedThread, members, threads, history
  <2>1. job' \in [Node -> JobPc]
    BY <1>15 DEF TypeInv, TypeOK, AcceptedThread, JobPc
  <2>2. \A m \in Node :
          radars'[m] + (IF job'[m] = "radar_next" THEN 1 ELSE 0) <= events'
    BY <1>15, <2>0, BoundAssumption DEF TypeInv, TypeOK, AcceptedThread, JobPc
  <2> QED
    BY <2>0, <2>1, <2>2 DEF TypeInv, TypeOK, CountBelow
<1>16. ASSUME NEW n \in Node, AcceptedAlive(n) PROVE TypeInv'
  <2>0. UNCHANGED <<state, curr, next, nextPos, ackReceived, ackThread, lastPing, pos, asked, ack, monitor, link, radars, taken, silences, events>>
    BY <1>16 DEF AcceptedAlive, members, threads, history
  <2>1. job' \in [Node -> JobPc]
    BY <1>16 DEF TypeInv, TypeOK, AcceptedAlive, JobPc
  <2>2. joins' \in [Node -> 0 .. MaxEvents]
    BY <1>16, BoundAssumption DEF TypeInv, TypeOK, AcceptedAlive
  <2>3. \A m \in Node :
          radars'[m] + (IF job'[m] = "radar_next" THEN 1 ELSE 0) <= events'
    BY <1>16, <2>0, BoundAssumption DEF TypeInv, TypeOK, AcceptedAlive, JobPc
  <2> QED
    BY <2>0, <2>1, <2>2, <2>3 DEF TypeInv, TypeOK, CountBelow
<1>17. ASSUME NEW n \in Node, AcceptedJoin(n) PROVE TypeInv'
  <2>0. UNCHANGED <<state, curr, next, nextPos, ackReceived, ackThread, lastPing, pos, asked, ack, monitor, link, radars, taken, silences, events>>
    BY <1>17 DEF AcceptedJoin, members, threads, history
  <2>1. job' \in [Node -> JobPc]
    BY <1>17 DEF TypeInv, TypeOK, AcceptedJoin, JobPc, AckThread
  <2>2. joins' \in [Node -> 0 .. MaxEvents]
    BY <1>17, BoundAssumption DEF TypeInv, TypeOK, AcceptedJoin, AckThread
  <2>3. \A m \in Node :
          radars'[m] + (IF job'[m] = "radar_next" THEN 1 ELSE 0) <= events'
    BY <1>17, <2>0, BoundAssumption DEF TypeInv, TypeOK, AcceptedJoin, JobPc
  <2> QED
    BY <2>0, <2>1, <2>2, <2>3 DEF TypeInv, TypeOK, CountBelow
<1>18. ASSUME NEW n \in Node, AcceptedSet(n) PROVE TypeInv'
  <2>0. UNCHANGED <<state, next, nextPos, ackReceived, lastPing, pos, asked, joins, ack, monitor, link, radars, taken, silences, events>>
    BY <1>18 DEF AcceptedSet, members, threads, history
  <2>1. curr' \in [Node -> Channel]
    BY <1>18 DEF TypeInv, TypeOK, AcceptedSet, TakeNext
  <2>2. ackThread' \in [Node -> 0 .. MaxEvents]
    BY <1>18, BoundAssumption DEF TypeInv, TypeOK, AcceptedSet
  <2>3. job' \in [Node -> JobPc]
    BY <1>18 DEF TypeInv, TypeOK, AcceptedSet, JobPc
  <2>4. \A m \in Node :
          radars'[m] + (IF job'[m] = "radar_next" THEN 1 ELSE 0) <= events'
    BY <1>18, <2>0, BoundAssumption DEF TypeInv, TypeOK, AcceptedSet, JobPc
  <2> QED
    BY <2>0, <2>1, <2>2, <2>3, <2>4 DEF TypeInv, TypeOK, CountBelow
<1>19. ASSUME NEW n \in Node, Steer(n) PROVE TypeInv'
  <2>0. UNCHANGED <<state, curr, next, nextPos, ackReceived, ackThread, lastPing, asked, joins, ack, monitor, link, radars, taken, silences, events>>
    BY <1>19 DEF Steer, members, threads, history
  <2>1. pos' \in [Node -> Channel]
    BY <1>19 DEF TypeInv, TypeOK, Steer, MoveTo, Positions
  <2>2. job' \in [Node -> JobPc]
    BY <1>19 DEF TypeInv, TypeOK, Steer, JobPc
  <2>3. \A m \in Node :
          radars'[m] + (IF job'[m] = "radar_next" THEN 1 ELSE 0) <= events'
    BY <1>19, <2>0, BoundAssumption DEF TypeInv, TypeOK, Steer, JobPc
  <2> QED
    BY <2>0, <2>1, <2>2, <2>3 DEF TypeInv, TypeOK, CountBelow
<1>20. ASSUME NEW n \in Node, SwitchEnd(n) PROVE TypeInv'
  <2>0. UNCHANGED <<curr, next, nextPos, ackReceived, ackThread, pos, asked, joins, ack, monitor, link, radars, taken, silences, events>>
    BY <1>20 DEF SwitchEnd, members, threads, history
  <2>1. state' \in [Node -> {"forward", "switch"}]
    BY <1>20 DEF TypeInv, TypeOK, SwitchEnd, Forward
  <2>2. lastPing' \in [Node -> {"heard", "silent"}]
    BY <1>20 DEF TypeInv, TypeOK, SwitchEnd, Hears
  <2>3. job' \in [Node -> JobPc]
    BY <1>20 DEF TypeInv, TypeOK, SwitchEnd, JobPc
  <2>4. \A m \in Node :
          radars'[m] + (IF job'[m] = "radar_next" THEN 1 ELSE 0) <= events'
    BY <1>20, <2>0, BoundAssumption DEF TypeInv, TypeOK, SwitchEnd, JobPc
  <2> QED
    BY <2>0, <2>1, <2>2, <2>3, <2>4 DEF TypeInv, TypeOK, CountBelow
<1>21. ASSUME NEW n \in Node, MonitorTest(n) PROVE TypeInv'
  <2>0. UNCHANGED <<state, curr, next, nextPos, ackReceived, ackThread, lastPing, pos, job, asked, joins, ack, link, radars, taken, silences, events>>
    BY <1>21 DEF MonitorTest, members, threads, history
  <2>1. monitor' \in [Node -> MonitorPc]
    BY <1>21 DEF TypeInv, TypeOK, MonitorTest, MonitorPc
  <2> QED
    BY <2>0, <2>1 DEF TypeInv, TypeOK, CountBelow
<1>22. ASSUME NEW n \in Node, MonitorNext(n) PROVE TypeInv'
  <2>0. UNCHANGED <<state, curr, nextPos, ackReceived, ackThread, lastPing, pos, job, asked, joins, ack, link, radars, taken, silences, events>>
    BY <1>22 DEF MonitorNext, members, threads, history
  <2>1. next' \in [Node -> Channel]
    BY <1>22, AfterTyped DEF TypeInv, TypeOK, MonitorNext
  <2>2. monitor' \in [Node -> MonitorPc]
    BY <1>22 DEF TypeInv, TypeOK, MonitorNext, MonitorPc
  <2> QED
    BY <2>0, <2>1, <2>2 DEF TypeInv, TypeOK, CountBelow
<1>23. ASSUME NEW n \in Node, MonitorPos(n) PROVE TypeInv'
  <2>0. UNCHANGED <<state, curr, next, ackReceived, ackThread, lastPing, pos, job, asked, joins, ack, link, radars, taken, silences, events>>
    BY <1>23 DEF MonitorPos, members, threads, history
  <2>1. nextPos' \in [Node -> Channel]
    BY <1>23 DEF TypeInv, TypeOK, MonitorPos
  <2>2. monitor' \in [Node -> MonitorPc]
    BY <1>23 DEF TypeInv, TypeOK, MonitorPos, MonitorPc
  <2> QED
    BY <2>0, <2>1, <2>2 DEF TypeInv, TypeOK, CountBelow
<1>24. ASSUME NEW n \in Node, MonitorSteer(n) PROVE TypeInv'
  <2>0. UNCHANGED <<state, curr, next, nextPos, ackReceived, ackThread, lastPing, job, asked, joins, ack, link, radars, taken, silences, events>>
    BY <1>24 DEF MonitorSteer, members, threads, history
  <2>1. pos' \in [Node -> Channel]
    BY <1>24 DEF TypeInv, TypeOK, MonitorSteer, MoveTo, Positions
  <2>2. monitor' \in [Node -> MonitorPc]
    BY <1>24 DEF TypeInv, TypeOK, MonitorSteer, MonitorPc
  <2> QED
    BY <2>0, <2>1, <2>2 DEF TypeInv, TypeOK, CountBelow
<1>25. ASSUME NEW n \in Node, MonitorSet(n) PROVE TypeInv'
  <2>0. UNCHANGED <<state, next, nextPos, ackReceived, ackThread, lastPing, pos, job, asked, joins, ack, link, radars, taken, silences, events>>
    BY <1>25 DEF MonitorSet, members, threads, history
  <2>1. curr' \in [Node -> Channel]
    BY <1>25 DEF TypeInv, TypeOK, MonitorSet, TakeNext
  <2>2. monitor' \in [Node -> MonitorPc]
    BY <1>25 DEF TypeInv, TypeOK, MonitorSet, MonitorPc
  <2> QED
    BY <2>0, <2>1, <2>2 DEF TypeInv, TypeOK, CountBelow
<1>26. ASSUME NEW n \in Node, MonitorEnd(n) PROVE TypeInv'
  <2>0. UNCHANGED <<state, curr, next, nextPos, ackReceived, ackThread, pos, job, asked, joins, ack, link, radars, taken, silences, events>>
    BY <1>26 DEF MonitorEnd, members, threads, history
  <2>1. lastPing' \in [Node -> {"heard", "silent"}]
    BY <1>26 DEF TypeInv, TypeOK, MonitorEnd, Hears
  <2>2. monitor' \in [Node -> MonitorPc]
    BY <1>26 DEF TypeInv, TypeOK, MonitorEnd, MonitorPc
  <2> QED
    BY <2>0, <2>1, <2>2 DEF TypeInv, TypeOK, CountBelow
<1>27. ASSUME NEW n \in Node, NEW k \in AckThread, AckTest(n, k) PROVE TypeInv'
  <2>0. UNCHANGED <<state, curr, next, nextPos, ackReceived, ackThread, lastPing, pos, job, asked, joins, monitor, link, radars, taken, silences, events>>
    BY <1>27 DEF AckTest, members, threads, history
  <2>1. ack' \in AckType /\ CountBelow'
    <3> DEFINE p == IF GivesUp(n, k) THEN "give_up"
                 ELSE IF ackReceived[n] THEN "done" ELSE "send"
    <3>1. p \in AckPc
      BY DEF AckPc
    <3>2. ack' = Moved(ack, n, k, p)
      BY <1>27 DEF Moved, AckTest
    <3>3. p \in {"send", "sleep"} => ack[n][k].count < Enough
      BY EnoughAssumption DEF TypeInv, TypeOK, GivesUp
    <3> HIDE DEF p
    <3> QED
      BY <3>1, <3>2, <3>3, ThreadMoves
  <2> QED
    BY <2>0, <2>1 DEF TypeInv, TypeOK, CountBelow, AckType, Thr
<1>28. ASSUME NEW n \in Node, NEW k \in AckThread, AckSend(n, k) PROVE TypeInv'
  <2>0. UNCHANGED <<state, curr, next, nextPos, ackReceived, ackThread, lastPing, pos, job, asked, joins, monitor, radars, taken, silences, events>>
    BY <1>28 DEF AckSend, members, threads, history
  <2>1. link' \in [Node -> Seq(Frame)]
    <3>1. Switch(next[n], radars[n]) \in Frame
      BY FrameTypes, BoundAssumption DEF TypeInv, TypeOK
    <3>2. link[Peer(n)] \in Seq(Frame)
      BY PeerIsNode DEF TypeInv, TypeOK
    <3>3. OnAir(link[Peer(n)], Switch(next[n], radars[n])) \in Seq(Frame)
      BY <3>1, <3>2, OnAirTyped
    <3> QED
      BY <1>28, <3>3 DEF TypeInv, TypeOK, AckSend, Transmit
  <2>2. ack' \in AckType /\ CountBelow'
    <3>1. ack' = Moved(ack, n, k, "sleep")
      BY <1>28 DEF Moved, AckSend
    <3>2. ack[n][k].count < Enough
      BY <1>28 DEF AckSend, TypeInv, CountBelow
    <3> QED
      BY <3>1, <3>2, ThreadMoves DEF AckPc
  <2> QED
    BY <2>0, <2>1, <2>2 DEF TypeInv, TypeOK, CountBelow, AckType, Thr
<1>29. ASSUME NEW n \in Node, NEW k \in AckThread, AckSleep(n, k) PROVE TypeInv'
  <2>0. UNCHANGED <<state, curr, next, nextPos, ackReceived, ackThread, lastPing, pos, job, asked, joins, monitor, link, radars, taken, silences, events>>
    BY <1>29 DEF AckSleep, members, threads, history
  <2>1. ack' \in AckType /\ CountBelow'
    <3> DEFINE t == [pc |-> "test", count |-> ack[n][k].count + 1]
    <3>1. ack \in AckType /\ ack[n][k] \in Thr
      BY DEF TypeInv, TypeOK, AckType, Thr
    <3>2. t \in Thr
      BY <1>29, <3>1, EnoughAssumption DEF Thr, TypeInv, CountBelow, AckSleep, AckPc
    <3>3. ack' = [ack EXCEPT ![n][k] = t] /\ t.pc = "test"
      BY <1>29 DEF AckSleep
    <3> HIDE DEF t
    <3>4. /\ ack' \in AckType
          /\ ack'[n][k] = t
          /\ \A m \in Node : \A j \in AckThread :
               m # n \/ j # k => ack'[m][j] = ack[m][j]
      <4>1. ack' = Replaced(ack, n, k, t)
        BY <3>3 DEF Replaced
      <4> QED
        BY <3>1, <3>2, <4>1, AckCounts
    <3>5. ASSUME NEW m \in Node, NEW j \in AckThread, ack'[m][j].pc \in {"send", "sleep"}
          PROVE  ack'[m][j].count < Enough
      <4>1. m # n \/ j # k
        BY <3>3, <3>4, <3>5
      <4> QED
        BY <3>4, <3>5, <4>1 DEF TypeInv, CountBelow
    <3> QED
      BY <3>4, <3>5 DEF CountBelow
  <2> QED
    BY <2>0, <2>1 DEF TypeInv, TypeOK, CountBelow, AckType, Thr
<1>30. ASSUME NEW n \in Node, NEW k \in AckThread, AckGiveUp(n, k) PROVE TypeInv'
  <2>0. UNCHANGED <<state, curr, next, nextPos, ackThread, lastPing, pos, job, asked, joins, monitor, link, radars, taken, silences, events>>
    BY <1>30 DEF AckGiveUp, members, threads, history
  <2>1. ackReceived' \in [Node -> BOOLEAN]
    BY <1>30 DEF TypeInv, TypeOK, AckGiveUp
  <2>2. ack' \in AckType /\ CountBelow'
    <3>1. ack' = Moved(ack, n, k, "unset")
      BY <1>30 DEF Moved, AckGiveUp
    <3>2. "unset" \notin {"send", "sleep"}
      OBVIOUS
    <3> QED
      BY <3>1, <3>2, ThreadMoves DEF AckPc
  <2> QED
    BY <2>0, <2>1, <2>2 DEF TypeInv, TypeOK, CountBelow, AckType, Thr
<1>31. ASSUME NEW n \in Node, NEW k \in AckThread, AckUnset(n, k) PROVE TypeInv'
  <2>0. UNCHANGED <<state, curr, next, nextPos, ackReceived, lastPing, pos, job, asked, joins, monitor, link, radars, taken, silences, events>>
    BY <1>31 DEF AckUnset, members, threads, history
  <2>1. ackThread' \in [Node -> 0 .. MaxEvents]
    BY <1>31, BoundAssumption DEF TypeInv, TypeOK, AckUnset
  <2>2. ack' \in AckType /\ CountBelow'
    <3> DEFINE p == IF Turntable = "missing" THEN "done" ELSE "steer"
    <3>1. p \in AckPc
      BY DEF AckPc
    <3>2. ack' = Moved(ack, n, k, p)
      BY <1>31 DEF Moved, AckUnset
    <3>3. p \in {"send", "sleep"} => ack[n][k].count < Enough
      BY EnoughAssumption DEF TypeInv, TypeOK, GivesUp
    <3> HIDE DEF p
    <3> QED
      BY <3>1, <3>2, <3>3, ThreadMoves
  <2> QED
    BY <2>0, <2>1, <2>2 DEF TypeInv, TypeOK, CountBelow, AckType, Thr
<1>32. ASSUME NEW n \in Node, NEW k \in AckThread, AckSteer(n, k) PROVE TypeInv'
  <2>0. UNCHANGED <<state, curr, next, nextPos, ackReceived, ackThread, lastPing, job, asked, joins, monitor, link, radars, taken, silences, events>>
    BY <1>32 DEF AckSteer, members, threads, history
  <2>1. pos' \in [Node -> Channel]
    BY <1>32 DEF TypeInv, TypeOK, AckSteer, MoveTo, Positions
  <2>2. ack' \in AckType /\ CountBelow'
    <3>1. ack' = Moved(ack, n, k, "set")
      BY <1>32 DEF Moved, AckSteer
    <3>2. "set" \notin {"send", "sleep"}
      OBVIOUS
    <3> QED
      BY <3>1, <3>2, ThreadMoves DEF AckPc
  <2> QED
    BY <2>0, <2>1, <2>2 DEF TypeInv, TypeOK, CountBelow, AckType, Thr
<1>33. ASSUME NEW n \in Node, NEW k \in AckThread, AckSet(n, k) PROVE TypeInv'
  <2>0. UNCHANGED <<state, next, nextPos, ackReceived, ackThread, lastPing, pos, job, asked, joins, monitor, link, radars, taken, silences, events>>
    BY <1>33 DEF AckSet, members, threads, history
  <2>1. curr' \in [Node -> Channel]
    BY <1>33 DEF TypeInv, TypeOK, AckSet, TakeNext
  <2>2. ack' \in AckType /\ CountBelow'
    <3>1. ack' = Moved(ack, n, k, "end")
      BY <1>33 DEF Moved, AckSet
    <3>2. "end" \notin {"send", "sleep"}
      OBVIOUS
    <3> QED
      BY <3>1, <3>2, ThreadMoves DEF AckPc
  <2> QED
    BY <2>0, <2>1, <2>2 DEF TypeInv, TypeOK, CountBelow, AckType, Thr
<1>34. ASSUME NEW n \in Node, NEW k \in AckThread, AckEnd(n, k) PROVE TypeInv'
  <2>0. UNCHANGED <<curr, next, nextPos, ackReceived, ackThread, pos, job, asked, joins, monitor, link, radars, taken, silences, events>>
    BY <1>34 DEF AckEnd, members, threads, history
  <2>1. state' \in [Node -> {"forward", "switch"}]
    BY <1>34 DEF TypeInv, TypeOK, AckEnd, Forward
  <2>2. lastPing' \in [Node -> {"heard", "silent"}]
    BY <1>34 DEF TypeInv, TypeOK, AckEnd
  <2>3. ack' \in AckType /\ CountBelow'
    <3>1. ack' = Moved(ack, n, k, "done")
      BY <1>34 DEF Moved, AckEnd
    <3>2. "done" \notin {"send", "sleep"}
      OBVIOUS
    <3> QED
      BY <3>1, <3>2, ThreadMoves DEF AckPc
  <2> QED
    BY <2>0, <2>1, <2>2, <2>3 DEF TypeInv, TypeOK, CountBelow, AckType, Thr
<1>35. CASE UNCHANGED vars
  BY <1>35 DEF TypeInv, TypeOK, CountBelow, vars, members, threads, history
<1>36. QED
  BY <1>1, <1>2, <1>3, <1>4, <1>5, <1>6, <1>7, <1>8, <1>9, <1>10, <1>11, <1>12, <1>13, <1>14, <1>15, <1>16, <1>17, <1>18, <1>19, <1>20, <1>21, <1>22, <1>23, <1>24, <1>25, <1>26, <1>27, <1>28, <1>29, <1>30, <1>31, <1>32, <1>33, <1>34, <1>35
     DEF Next, Message, JobStep, MonitorStep, AckStep

\* Every variable keeps its type; in particular a waiting thread never sends more
\* than Enough commands and no more switches are started than there were events.
THEOREM RrrmTypeCorrect == Spec => []TypeOK
<1>1. TypeInv => TypeOK
  BY DEF TypeInv
<1>2. QED
  BY TypeInit, TypeStep, <1>1, PTL DEF Spec

-----------------------------------------------------------------------------
(* One channel: the inductive invariant. *)

\* The commands in q are in the order of their switches, from switch lo to
\* switch hi, and those of the latest one are for channel c.
Commands(q, lo, hi, c) ==
    \A i \in 1 .. Len(q) :
        /\ q[i].type = "switch"
        /\ lo <= q[i].id /\ q[i].id <= hi
        /\ q[i].id = hi => q[i].chan = c
        /\ \A j \in 1 .. i : q[j].id <= q[i].id

Accepts(q) == \A i \in 1 .. Len(q) : q[i].type = "accept"

\* Node n has accepted a command and has not followed it yet.
Follows(n) == job[n] \in {"accept_2", "accept_3", "switch_set"}

\* Node a asks and node b answers; nobody else does anything.
Alone(a, b) ==
    /\ \A n \in Node : lastPing[n] = "heard" /\ monitor[n] = "watch"
    /\ \A k \in AckThread : ack[b][k].pc = "none"
    /\ job[b] \in {"idle", "radar_next", "accept_2", "accept_3", "switch_set",
                   "steer", "end"}
    /\ ~Follows(a)
    /\ Accepts(link[a])

\* Each switch has a thread of its own, which has not begun before its turn.
Fresh(a) ==
    /\ \A k \in AckThread : k > radars[a] => ack[a][k].pc = "none"
    /\ job[a] \in {"radar_pos", "radar_ack", "radar_start"} =>
          radars[a] \in AckThread /\ ack[a][radars[a]].pc = "none"
    /\ job[a] = "radar_start" => ackThread[a] \in {0, radars[a]}

\* b has the channel of the latest switch, if a command of it has come, or it
\* is about to take it.
Orders(a, b) ==
    /\ Commands(link[b], taken[b], radars[a], next[a])
    /\ taken[b] <= radars[a]
    /\ taken[b] = radars[a] =>
          IF Follows(b) THEN asked[b].chan = next[a] ELSE curr[b] = next[a]

\* a has the channel of its latest switch, or somebody is left who will take it:
\* the block's thread, a thread that has given up, or one that waits while no
\* acceptance has come.
Owed(a) ==
    \/ curr[a] = next[a]
    \/ job[a] \in {"radar_pos", "radar_ack", "ack_thread", "ack_join", "ack_set"}
    \/ job[a] = "ack_alive" /\ ackThread[a] # 0
    \/ job[a] = "radar_start" /\ ackThread[a] # 0 /\ ~ackReceived[a]
    \/ \E k \in AckThread :
          \/ ack[a][k].pc \in {"give_up", "unset", "steer", "set"}
          \/ ack[a][k].pc \in {"test", "send", "sleep"} /\ ~ackReceived[a]

Quiet(b) == silences = 0 /\ radars[b] = 0

ChannelPart(a, b) == Alone(a, b) /\ Fresh(a) /\ Orders(a, b) /\ Owed(a)

ChannelInv == \A a, b \in Node : a # b /\ Quiet(b) => ChannelPart(a, b)

-----------------------------------------------------------------------------
(* Lemmas about the types and the operators. *)

\* What the proofs use of the types.
Types ==
    /\ job \in [Node -> JobPc]
    /\ curr \in [Node -> Channel] /\ next \in [Node -> Channel]
    /\ nextPos \in [Node -> Channel] /\ pos \in [Node -> Channel]
    /\ asked \in [Node -> [chan : Channel, id : Nat]]
    /\ ackThread \in [Node -> 0 .. MaxEvents] /\ ackReceived \in [Node -> BOOLEAN]
    /\ lastPing \in [Node -> {"heard", "silent"}]
    /\ link \in [Node -> Seq(Frame)] /\ taken \in [Node -> Nat]
    /\ radars \in [Node -> Nat] /\ silences \in Nat

\* They are part of the types of Rrrm.
LEMMA TypesHold == TypeInv => Types
<1> SUFFICES ASSUME TypeInv PROVE Types
  OBVIOUS
<1>1. radars \in [Node -> 0 .. MaxEvents] /\ silences \in 0 .. MaxEvents
  BY Zenon DEF TypeInv, TypeOK
<1>2. radars \in [Node -> Nat] /\ silences \in Nat
  BY <1>1, BoundAssumption
<1>3. /\ job \in [Node -> JobPc]
      /\ curr \in [Node -> Channel] /\ next \in [Node -> Channel]
      /\ nextPos \in [Node -> Channel] /\ pos \in [Node -> Channel]
      /\ asked \in [Node -> [chan : Channel, id : Nat]]
      /\ ackThread \in [Node -> 0 .. MaxEvents] /\ ackReceived \in [Node -> BOOLEAN]
      /\ lastPing \in [Node -> {"heard", "silent"}]
      /\ link \in [Node -> Seq(Frame)] /\ taken \in [Node -> Nat]
  BY Zenon DEF TypeInv, TypeOK
<1> QED
  BY <1>2, <1>3, Zenon DEF Types

\* There are two nodes.
LEMMA Pair ==
    ASSUME NEW a \in Node, NEW b \in Node, a # b
    PROVE  Node = {a, b} /\ Peer(a) = b /\ Peer(b) = a
<1>1. Node = {a, b}
  BY NodeAssumption
<1> QED
  BY <1>1, PeerIsNode

\* A command that arrives is the oldest one.
LEMMA CommandArrives ==
    ASSUME NEW q \in Seq(Frame), q # <<>>, NEW lo \in Nat, NEW hi \in Nat,
           NEW c, Commands(q, lo, hi, c)
    PROVE  /\ Head(q).type = "switch"
           /\ Head(q).id \in Nat /\ lo <= Head(q).id /\ Head(q).id <= hi
           /\ Head(q).id = hi => Head(q).chan = c
           /\ Commands(Tail(q), Head(q).id, hi, c)
           /\ Commands(Tail(q), lo, hi, c)
<1>1. /\ Tail(q) \in Seq(Frame) /\ Len(q) \in Nat /\ Len(q) >= 1
      /\ Len(Tail(q)) = Len(q) - 1
      /\ \A i \in 1 .. Len(Tail(q)) : Tail(q)[i] = q[i + 1]
      /\ Head(q) = q[1] /\ Head(q) \in Frame
  BY HeadTailProperties, LenProperties, EmptySeq
<1>2. /\ Head(q).type = "switch"
      /\ Head(q).id \in Nat /\ lo <= Head(q).id /\ Head(q).id <= hi
      /\ Head(q).id = hi => Head(q).chan = c
  BY <1>1 DEF Commands, Frame
<1>3. ASSUME NEW i \in 1 .. Len(Tail(q))
      PROVE  /\ Tail(q)[i].type = "switch"
             /\ Head(q).id <= Tail(q)[i].id /\ Tail(q)[i].id <= hi
             /\ lo <= Tail(q)[i].id
             /\ Tail(q)[i].id = hi => Tail(q)[i].chan = c
             /\ \A j \in 1 .. i : Tail(q)[j].id <= Tail(q)[i].id
  <2>1. /\ i + 1 \in 1 .. Len(q) /\ 1 \in 1 .. i + 1 /\ Tail(q)[i] = q[i + 1]
        /\ \A j \in 1 .. i : j + 1 \in 1 .. i + 1 /\ Tail(q)[j] = q[j + 1]
    BY <1>1
  <2> QED
    BY <1>1, <2>1 DEF Commands
<1> QED
  BY <1>2, <1>3 DEF Commands

\* A command of the latest switch joins the others.
LEMMA CommandSent ==
    ASSUME NEW q \in Seq(Frame), NEW lo \in Nat, NEW hi \in Nat, lo <= hi,
           NEW c \in Channel, Commands(q, lo, hi, c)
    PROVE  Commands(OnAir(q, Switch(c, hi)), lo, hi, c)
<1>1. CASE OnAir(q, Switch(c, hi)) = q
  BY <1>1
<1>2. CASE OnAir(q, Switch(c, hi)) = Append(q, Switch(c, hi))
  <2> DEFINE f == Switch(c, hi)
             z == Append(q, f)
  <2>1. f.type = "switch" /\ f.id = hi /\ f.chan = c
    BY DEF Switch
  <2>2. /\ Len(q) \in Nat /\ Len(z) = Len(q) + 1
        /\ \A i \in 1 .. Len(q) : z[i] = q[i]
        /\ z[Len(q) + 1] = f
    <3>1. f \in Frame
      BY FrameTypes
    <3> QED
      BY <3>1, AppendProperties, LenProperties
  <2> HIDE DEF f, z
  <2>3. ASSUME NEW i \in 1 .. Len(z)
        PROVE  /\ z[i].type = "switch"
               /\ lo <= z[i].id /\ z[i].id <= hi
               /\ z[i].id = hi => z[i].chan = c
               /\ \A j \in 1 .. i : z[j].id <= z[i].id
    <3>1. CASE i \in 1 .. Len(q)
      <4>1. \A j \in 1 .. i : j \in 1 .. Len(q)
        BY <2>2, <3>1
      <4> QED
        BY <2>2, <3>1, <4>1 DEF Commands
    <3>2. CASE i = Len(q) + 1
      <4>1. ASSUME NEW j \in 1 .. i PROVE z[j].id <= hi
        BY <2>1, <2>2, <3>2 DEF Commands
      <4> QED
        BY <2>1, <2>2, <3>2, <4>1
    <3> QED
      BY <2>2, <3>1, <3>2
  <2>4. Commands(z, lo, hi, c)
    BY <2>3 DEF Commands
  <2> QED
    BY <1>2, <2>4 DEF z, f
<1> QED
  BY <1>1, <1>2 DEF OnAir

\* None of them is of a switch that has just begun.
LEMMA CommandsAge ==
    ASSUME NEW q \in Seq(Frame), NEW lo \in Nat, NEW hi \in Nat, NEW c, NEW d,
           Commands(q, lo, hi, c)
    PROVE  Commands(q, lo, hi + 1, d)
<1>1. ASSUME NEW i \in 1 .. Len(q) PROVE q[i].id \in Nat
  <2>1. q[i] \in Frame
    BY LenProperties
  <2> QED
    BY <2>1 DEF Frame
<1> QED
  BY <1>1 DEF Commands

\* Acceptances stay acceptances.
LEMMA AcceptArrives ==
    ASSUME NEW q \in Seq(Frame), q # <<>>, Accepts(q)
    PROVE  Head(q).type = "accept" /\ Accepts(Tail(q))
<1>1. /\ Len(q) \in Nat /\ Len(q) >= 1
      /\ Len(Tail(q)) = Len(q) - 1
      /\ \A i \in 1 .. Len(Tail(q)) : Tail(q)[i] = q[i + 1]
      /\ Head(q) = q[1]
  BY HeadTailProperties, LenProperties, EmptySeq
<1> QED
  BY <1>1 DEF Accepts

\* An acceptance joins them.
LEMMA AcceptSent ==
    ASSUME NEW q \in Seq(Frame), NEW i \in Nat, Accepts(q)
    PROVE  Accepts(OnAir(q, Accept(i)))
<1>1. Accept(i) \in Frame /\ Accept(i).type = "accept"
  BY FrameTypes DEF Accept
<1>2. /\ Len(q) \in Nat /\ Len(Append(q, Accept(i))) = Len(q) + 1
      /\ \A j \in 1 .. Len(q) : Append(q, Accept(i))[j] = q[j]
      /\ Append(q, Accept(i))[Len(q) + 1] = Accept(i)
  BY <1>1, AppendProperties, LenProperties
<1> QED
  BY <1>1, <1>2 DEF OnAir, Accepts

\* What a step of a waiting thread of a means for the threads of both nodes.
LEMMA ThreadGoesOn ==
    ASSUME TypeInv, NEW a \in Node, NEW b \in Node, a # b, NEW k \in AckThread,
           NEW p \in AckPc, ack' = Moved(ack, a, k, p)
    PROVE  /\ ack'[a][k].pc = p
           /\ \A j \in AckThread : j # k => ack'[a][j].pc = ack[a][j].pc
           /\ \A j \in AckThread : ack'[b][j].pc = ack[b][j].pc
<1>1. ack \in AckType
  BY DEF TypeInv, TypeOK, AckType, Thr
<1>2. /\ ack'[a][k] = [pc |-> p, count |-> ack[a][k].count]
      /\ \A m \in Node : \A j \in AckThread :
           m # a \/ j # k => ack'[m][j] = ack[m][j]
  BY <1>1, AckMoves
<1> QED
  BY <1>2

-----------------------------------------------------------------------------
(* Steps of b, the node that answers. *)

\* Initially nothing has been asked.
LEMMA ChannelInit == Init => ChannelInv
<1> SUFFICES ASSUME Init, NEW a \in Node, NEW b \in Node, a # b
             PROVE  ChannelPart(a, b)
  BY DEF ChannelInv
<1>1. Commands(link[b], 0, 0, 0)
  BY DEF Init, Commands
<1>2. Accepts(link[a])
  BY DEF Init, Accepts
<1> QED
  BY <1>1, <1>2 DEF Init, ChannelPart, Alone, Fresh, Orders, Owed, Follows, NoThread

\* What a keeps while b takes a step.
LEMMA AskerKept ==
    ASSUME NEW a \in Node, NEW b \in Node, a # b, Fresh(a), Owed(a),
           UNCHANGED <<ack, radars, ackThread, ackReceived, next>>,
           curr'[a] = curr[a], job'[a] = job[a]
    PROVE  Fresh(a)' /\ Owed(a)'
BY DEF Fresh, Owed

\* b does nothing that is not an answer to a.
LEMMA AnswererStep ==
    ASSUME TypeInv, NEW a \in Node, NEW b \in Node, a # b, ChannelPart(a, b),
           Quiet(b), Quiet(b)',
           \/ Message(b) \/ JobStep(b) \/ MonitorStep(b) \/ Lose(b) \/ Silence(b)
           \/ \E k \in AckThread : AckStep(b, k)
    PROVE  ChannelPart(a, b)'
<1> USE Pair DEF ChannelPart
<1>0. /\ Alone(a, b) /\ Fresh(a) /\ Orders(a, b) /\ Owed(a)
      /\ job \in [Node -> JobPc] /\ link \in [Node -> Seq(Frame)]
      /\ curr \in [Node -> Channel] /\ asked \in [Node -> [chan : Channel, id : Nat]]
      /\ taken \in [Node -> Nat] /\ radars[a] \in Nat /\ radars \in [Node -> Nat]
      /\ lastPing \in [Node -> {"heard", "silent"}] /\ silences \in Nat
  BY TypesHold DEF Types
<1>1. CASE Lose(b)
  <2>1. /\ link[b] # <<>> /\ link'[b] = Tail(link[b]) /\ link'[a] = link[a]
        /\ UNCHANGED <<members, threads, history>>
    BY <1>0, <1>1 DEF Lose
  <2>2. Commands(Tail(link[b]), taken[b], radars[a], next[a])
    BY <1>0, <2>1, CommandArrives DEF Orders
  <2>3. Orders(a, b)'
    BY <1>0, <2>1, <2>2 DEF Orders, Follows, members, threads, history
  <2>4. Alone(a, b)'
    BY <1>0, <2>1 DEF Alone, Follows, members, threads
  <2> QED
    BY <1>0, <2>1, <2>3, <2>4, AskerKept DEF members, threads, history
<1>2. CASE Radar(b)
  <2>1. /\ job[b] = "idle" /\ job'[b] = "radar_next" /\ job'[a] = job[a]
        /\ UNCHANGED <<curr, next, ackReceived, ackThread, lastPing, asked, ack,
                       monitor, link, radars, taken>>
    BY <1>0, <1>2 DEF Radar
  <2>2. Orders(a, b)' /\ Alone(a, b)'
    BY <1>0, <2>1 DEF Orders, Alone, Follows
  <2> QED
    BY <1>0, <2>1, <2>2, AskerKept
<1>3. CASE Ping(b)
  BY <1>0, <1>3 DEF Ping, Alone
<1>4. CASE SwitchKnown(b)
  <2>1. /\ link[b] # <<>> /\ link'[b] = Tail(link[b]) /\ link'[a] = link[a]
        /\ taken'[b] = Head(link[b]).id /\ Head(link[b]).chan = curr[b]
        /\ job[b] = "idle"
        /\ \A n \in Node : lastPing[n] = "heard" => lastPing'[n] = "heard"
        /\ UNCHANGED <<curr, next, ackReceived, ackThread, job, asked, ack, monitor,
                       radars>>
    BY <1>0, <1>4 DEF SwitchKnown, Arrives, Hears, threads
  <2>2. /\ Head(link[b]).id <= radars[a]
        /\ Head(link[b]).id = radars[a] => Head(link[b]).chan = next[a]
        /\ Commands(Tail(link[b]), Head(link[b]).id, radars[a], next[a])
    BY <1>0, <2>1, CommandArrives DEF Orders
  <2>3. Orders(a, b)'
    BY <1>0, <2>1, <2>2 DEF Orders, Follows
  <2>4. Alone(a, b)'
    BY <1>0, <2>1 DEF Alone, Follows
  <2> QED
    BY <1>0, <2>1, <2>3, <2>4, AskerKept
<1>5. CASE SwitchAsked(b)
  <2>1. /\ link[b] # <<>> /\ link'[b] = Tail(link[b])
        /\ link'[a] = OnAir(link[a], Accept(Head(link[b]).id))
        /\ taken'[b] = Head(link[b]).id /\ asked'[b].chan = Head(link[b]).chan
        /\ job'[b] = "accept_2" /\ job'[a] = job[a]
        /\ \A n \in Node : lastPing[n] = "heard" => lastPing'[n] = "heard"
        /\ UNCHANGED <<curr, next, ackReceived, ackThread, ack, monitor, radars>>
    BY <1>0, <1>5 DEF SwitchAsked, Arrives, Hears
  <2>2. /\ Head(link[b]).id \in Nat /\ Head(link[b]).id <= radars[a]
        /\ Head(link[b]).id = radars[a] => Head(link[b]).chan = next[a]
        /\ Commands(Tail(link[b]), Head(link[b]).id, radars[a], next[a])
    BY <1>0, <2>1, CommandArrives DEF Orders
  <2>3. Orders(a, b)'
    BY <1>0, <2>1, <2>2 DEF Orders, Follows
  <2>4. Accepts(link'[a])
    BY <1>0, <2>1, <2>2, AcceptSent DEF Alone
  <2>5. Alone(a, b)'
    BY <1>0, <2>1, <2>4 DEF Alone, Follows
  <2> QED
    BY <1>0, <2>1, <2>3, <2>5, AskerKept
<1>6. CASE AcceptIgnored(b) \/ Accepted(b)
  <2>1. link[b] # <<>> /\ Head(link[b]).type = "accept"
    BY <1>6 DEF AcceptIgnored, Accepted, Arrives
  <2>2. Head(link[b]).type = "switch"
    BY <1>0, <2>1, CommandArrives DEF Orders
  <2> QED
    BY <2>1, <2>2
<1>7. CASE AcceptAgain(b)
  <2>1. /\ Follows(b) /\ Follows(b)' /\ job'[a] = job[a]
        /\ job'[b] \in {"accept_3", "switch_set"}
        /\ link'[b] = link[b] /\ link'[a] = OnAir(link[a], Accept(asked[b].id))
        /\ UNCHANGED <<curr, next, ackReceived, ackThread, lastPing, asked, ack,
                       monitor, radars, taken>>
    BY <1>0, <1>7 DEF AcceptAgain, Transmit, Follows, members, history
  <2>2. Orders(a, b)'
    BY <1>0, <2>1 DEF Orders
  <2>3. Accepts(link'[a])
    BY <1>0, <2>1, AcceptSent DEF Alone
  <2>4. Alone(a, b)'
    BY <1>0, <2>1, <2>3 DEF Alone, Follows
  <2> QED
    BY <1>0, <2>1, <2>2, <2>4, AskerKept
<1>8. CASE SwitchSet(b)
  <2>1. /\ job[b] = "switch_set" /\ job'[b] = "steer" /\ job'[a] = job[a]
        /\ curr'[b] = asked[b].chan /\ curr'[a] = curr[a]
        /\ UNCHANGED <<next, ackReceived, ackThread, lastPing, ack, monitor, link,
                       radars, taken>>
    BY <1>0, <1>8 DEF SwitchSet, TakeAsked, history
  <2>2. Orders(a, b)' /\ Alone(a, b)'
    BY <1>0, <2>1 DEF Orders, Alone, Follows
  <2> QED
    BY <1>0, <2>1, <2>2, AskerKept
<1>9. CASE Steer(b) \/ SwitchEnd(b)
  <2>1. /\ job[b] \in {"steer", "end"} /\ job'[b] \in {"end", "idle"} /\ job'[a] = job[a]
        /\ \A n \in Node : lastPing[n] = "heard" => lastPing'[n] = "heard"
        /\ UNCHANGED <<curr, next, ackReceived, ackThread, asked, ack, monitor, link,
                       radars, taken>>
    BY <1>0, <1>9 DEF Steer, SwitchEnd, Hears, history
  <2>2. Orders(a, b)' /\ Alone(a, b)'
    BY <1>0, <2>1 DEF Orders, Alone, Follows
  <2> QED
    BY <1>0, <2>1, <2>2, AskerKept
<1>10. CASE RadarNext(b)
  BY <1>0, <1>10, BoundAssumption DEF RadarNext, Quiet
<1>11. CASE \/ RadarPos(b) \/ RadarAck(b) \/ RadarStart(b) \/ AcceptedThread(b)
            \/ AcceptedAlive(b) \/ AcceptedJoin(b) \/ AcceptedSet(b)
  BY <1>0, <1>11 DEF Alone, RadarPos, RadarAck, RadarStart, AcceptedThread,
                     AcceptedAlive, AcceptedJoin, AcceptedSet
<1>12. CASE MonitorStep(b)
  BY <1>0, <1>12 DEF Alone, MonitorStep, MonitorTest, MonitorNext, MonitorPos,
                     MonitorSteer, MonitorSet, MonitorEnd
<1>13. CASE Silence(b)
  BY <1>0, <1>13 DEF Silence, Quiet
<1>14. CASE \E k \in AckThread : AckStep(b, k)
  BY <1>0, <1>14 DEF Alone, AckStep, AckTest, AckSend, AckSleep, AckGiveUp, AckUnset,
                     AckSteer, AckSet, AckEnd
<1> QED
  BY <1>1, <1>2, <1>3, <1>4, <1>5, <1>6, <1>7, <1>8, <1>9, <1>10, <1>11, <1>12, <1>13,
     <1>14 DEF Message, JobStep

-----------------------------------------------------------------------------
(* Steps of a, the node that sees radar. *)

\* What b keeps while a takes a step.
LEMMA AnswererKept ==
    ASSUME NEW a \in Node, NEW b \in Node, a # b, Alone(a, b), Orders(a, b),
           \A n \in Node : lastPing[n] = "heard" => lastPing'[n] = "heard",
           \A k \in AckThread : ack'[b][k].pc = ack[b][k].pc,
           UNCHANGED <<monitor, asked, taken>>,
           next'[a] = next[a], radars'[a] = radars[a],
           curr'[b] = curr[b], job'[b] = job[b], ~Follows(a)'
    PROVE  /\ Accepts(link'[a]) => Alone(a, b)'
           /\ Commands(link'[b], taken[b], radars[a], next[a]) => Orders(a, b)'
BY DEF Alone, Orders, Follows

\* The handlers of a.
LEMMA AskerHandlers ==
    ASSUME TypeInv, NEW a \in Node, NEW b \in Node, a # b, ChannelPart(a, b),
           Message(a) \/ JobStep(a)
    PROVE  ChannelPart(a, b)'
<1> USE Pair DEF ChannelPart
<1>0. /\ Alone(a, b) /\ Fresh(a) /\ Orders(a, b) /\ Owed(a)
      /\ job \in [Node -> JobPc] /\ link \in [Node -> Seq(Frame)]
      /\ curr \in [Node -> Channel] /\ next \in [Node -> Channel]
      /\ taken \in [Node -> Nat] /\ radars[a] \in Nat /\ radars \in [Node -> Nat]
      /\ lastPing \in [Node -> {"heard", "silent"}]
      /\ ackThread \in [Node -> 0 .. MaxEvents] /\ ackReceived \in [Node -> BOOLEAN]
      /\ Commands(link[b], taken[b], radars[a], next[a]) /\ Accepts(link[a])
  BY TypesHold DEF Types, Orders, Alone
<1>1. CASE Radar(a)
  <2>1. /\ job[a] = "idle" /\ job'[a] = "radar_next" /\ job'[b] = job[b]
        /\ UNCHANGED <<curr, next, ackReceived, ackThread, lastPing, asked, ack,
                       monitor, link, radars, taken>>
    BY <1>0, <1>1 DEF Radar
  <2>2. Alone(a, b)' /\ Orders(a, b)'
    BY <1>0, <2>1, AnswererKept DEF Follows
  <2> QED
    BY <1>0, <2>1, <2>2 DEF Fresh, Owed
<1>2. CASE RadarNext(a)
  <2>1. /\ job[a] = "radar_next" /\ job'[a] = "radar_pos" /\ job'[b] = job[b]
        /\ radars'[a] = radars[a] + 1
        /\ UNCHANGED <<curr, ackReceived, ackThread, lastPing, asked, ack, monitor,
                       link, taken>>
    BY <1>0, <1>2 DEF RadarNext
  <2>0. radars[a] + 1 \in AckThread
    <3>1. radars[a] + 1 <= events /\ events \in 0 .. MaxEvents
      BY <2>1 DEF TypeInv, TypeOK
    <3> QED
      BY <1>0, <3>1, BoundAssumption DEF AckThread
  <2>2. Commands(link[b], taken[b], radars'[a], next'[a])
    BY <1>0, <2>1, CommandsAge
  <2>3. Orders(a, b)'
    BY <1>0, <2>1, <2>2 DEF Orders
  <2>4. Fresh(a)'
    BY <1>0, <2>0, <2>1 DEF Fresh, AckThread
  <2> QED
    BY <1>0, <2>1, <2>3, <2>4 DEF Alone, Follows, Owed
<1>3. CASE RadarPos(a)
  <2>1. /\ job[a] = "radar_pos" /\ job'[a] = "radar_ack" /\ job'[b] = job[b]
        /\ UNCHANGED <<curr, next, ackReceived, ackThread, lastPing, asked, ack,
                       monitor, link, radars, taken>>
    BY <1>0, <1>3 DEF RadarPos, history
  <2>2. Alone(a, b)' /\ Orders(a, b)'
    BY <1>0, <2>1, AnswererKept DEF Follows
  <2> QED
    BY <1>0, <2>1, <2>2 DEF Fresh, Owed
<1>4. CASE RadarAck(a)
  <2>1. /\ job[a] = "radar_ack" /\ job'[a] = "radar_start" /\ job'[b] = job[b]
        /\ ~ackReceived'[a] /\ ackThread'[a] = radars[a]
        /\ UNCHANGED <<curr, next, lastPing, asked, ack, monitor, link, radars, taken>>
    BY <1>0, <1>4 DEF RadarAck, NoneReceived, history
  <2>2. Alone(a, b)' /\ Orders(a, b)'
    BY <1>0, <2>1, AnswererKept DEF Follows
  <2>3. radars[a] # 0
    BY <1>0, <2>1 DEF Fresh, AckThread
  <2> QED
    BY <1>0, <2>1, <2>2, <2>3 DEF Fresh, Owed
<1>5. CASE RadarStart(a)
  <2>1. /\ job[a] = "radar_start" /\ job'[b] = job[b] /\ job'[a] \in {"dead", "idle"}
        /\ UNCHANGED <<members, asked, joins, monitor, link, history>>
    <3>1. \/ job' = [job EXCEPT ![a] = "dead"]
          \/ job' = [job EXCEPT ![a] = "idle"]
      BY <1>5, Zenon DEF RadarStart
    <3>2. job[a] = "radar_start" /\ UNCHANGED <<members, asked, joins, monitor, link, history>>
      BY <1>5, Zenon DEF RadarStart
    <3> QED
      BY <1>0, <3>1, <3>2
  <2>2. CASE ackThread[a] = 0
    <3>1. ack' = ack
      BY <1>5, <2>2 DEF RadarStart
    <3>2. Alone(a, b)' /\ Orders(a, b)'
      BY <1>0, <2>1, <3>1, AnswererKept DEF Follows, members, history
    <3> QED
      BY <1>0, <2>1, <2>2, <3>1, <3>2 DEF Fresh, Owed, members, history
  <2>3. CASE ackThread[a] # 0
    <3> DEFINE k == ackThread[a]
    <3>1. k = radars[a] /\ k \in AckThread /\ ack[a][k].pc = "none"
      BY <1>0, <2>1, <2>3 DEF Fresh
    <3>2. ack' = Moved(ack, a, k, "test")
      BY <1>5, <2>3 DEF RadarStart, Moved
    <3>3. /\ ack'[a][k].pc = "test"
          /\ \A j \in AckThread : j # k => ack'[a][j].pc = ack[a][j].pc
          /\ \A j \in AckThread : ack'[b][j].pc = ack[b][j].pc
      BY <3>1, <3>2, ThreadGoesOn DEF AckPc
    <3>4. Alone(a, b)' /\ Orders(a, b)'
      BY <1>0, <2>1, <3>3, AnswererKept DEF Follows, members, history
    <3>5. Fresh(a)'
      <4>1. radars'[a] = radars[a] /\ job'[a] \in {"dead", "idle"}
        BY <2>1 DEF history
      <4>2. ASSUME NEW j \in AckThread, j > radars[a] PROVE ack'[a][j].pc = "none"
        <5>1. j # k
          BY <1>0, <3>1, <4>2
        <5> QED
          BY <1>0, <3>3, <4>2, <5>1 DEF Fresh
      <4> QED
        BY <4>1, <4>2 DEF Fresh
    <3>6. Owed(a)'
      BY <1>0, <2>1, <2>3, <3>1, <3>3 DEF Owed, members, history
    <3> QED
      BY <3>4, <3>5, <3>6
  <2> QED
    BY <2>2, <2>3
<1>6. CASE Ping(a) \/ SwitchKnown(a) \/ SwitchAsked(a) \/ AcceptAgain(a) \/ SwitchSet(a)
  <2>1. lastPing[a] = "heard" /\ ~Follows(a)
        /\ (link[a] # <<>> => Head(link[a]).type = "accept")
    BY <1>0, AcceptArrives DEF Alone
  <2> QED
    BY <1>6, <2>1 DEF Ping, SwitchKnown, SwitchAsked, AcceptAgain, SwitchSet, Arrives,
                      Follows
<1>7. CASE AcceptIgnored(a)
  <2>1. /\ link[a] # <<>> /\ link'[a] = Tail(link[a]) /\ link'[b] = link[b]
        /\ \A n \in Node : lastPing[n] = "heard" => lastPing'[n] = "heard"
        /\ UNCHANGED <<curr, next, ackReceived, ackThread, job, asked, ack, monitor,
                       radars, taken>>
    BY <1>0, <1>7 DEF AcceptIgnored, Arrives, Hears, threads, history
  <2>2. Accepts(link'[a])
    BY <1>0, <2>1, AcceptArrives
  <2>3. ~Follows(a)'
    BY <1>0, <2>1 DEF Alone, Follows
  <2>4. Alone(a, b)' /\ Orders(a, b)'
    BY <1>0, <2>1, <2>2, <2>3, AnswererKept
  <2> QED
    BY <1>0, <2>1, <2>4 DEF Fresh, Owed
<1>8. CASE Accepted(a)
  <2>1. /\ link[a] # <<>> /\ link'[a] = Tail(link[a]) /\ link'[b] = link[b]
        /\ \A n \in Node : lastPing[n] = "heard" => lastPing'[n] = "heard"
        /\ job'[a] = "ack_thread" /\ job'[b] = job[b]
        /\ UNCHANGED <<curr, next, ackThread, asked, ack, monitor, radars, taken>>
    BY <1>0, <1>8 DEF Accepted, Arrives, Hears, history
  <2>2. Accepts(link'[a])
    BY <1>0, <2>1, AcceptArrives
  <2>3. Alone(a, b)' /\ Orders(a, b)'
    BY <1>0, <2>1, <2>2, AnswererKept DEF Follows
  <2> QED
    BY <1>0, <2>1, <2>3 DEF Fresh, Owed
<1>9. CASE AcceptedThread(a) \/ AcceptedAlive(a)
  <2>1. /\ job[a] \in {"ack_thread", "ack_alive"} /\ job'[b] = job[b]
        /\ job[a] = "ack_thread" =>
              job'[a] = IF ackThread[a] = 0 THEN "ack_set" ELSE "ack_alive"
        /\ job[a] = "ack_alive" =>
              job'[a] = IF ackThread[a] = 0 THEN "dead" ELSE "ack_join"
        /\ UNCHANGED <<curr, next, ackReceived, ackThread, lastPing, asked, ack,
                       monitor, link, radars, taken>>
    BY <1>0, <1>9 DEF AcceptedThread, AcceptedAlive, members, history
  <2>2. Alone(a, b)' /\ Orders(a, b)'
    BY <1>0, <2>1, AnswererKept DEF Follows
  <2> QED
    BY <1>0, <2>1, <2>2 DEF Fresh, Owed
<1>10. CASE AcceptedJoin(a)
  <2>1. /\ job[a] = "ack_join" /\ job'[b] = job[b] /\ job'[a] = "ack_set"
        /\ UNCHANGED <<curr, next, ackReceived, ackThread, lastPing, asked, ack,
                       monitor, link, radars, taken>>
    BY <1>0, <1>10 DEF AcceptedJoin, members, history
  <2>2. Alone(a, b)' /\ Orders(a, b)'
    BY <1>0, <2>1, AnswererKept DEF Follows
  <2> QED
    BY <1>0, <2>1, <2>2 DEF Fresh, Owed
<1>11. CASE AcceptedSet(a)
  <2>1. /\ job'[b] = job[b] /\ job'[a] = "steer"
        /\ curr'[a] = next[a] /\ curr'[b] = curr[b]
        /\ UNCHANGED <<next, ackReceived, lastPing, asked, ack, monitor, link, radars,
                       taken>>
    BY <1>0, <1>11 DEF AcceptedSet, TakeNext, history
  <2>2. Alone(a, b)' /\ Orders(a, b)'
    BY <1>0, <2>1, AnswererKept DEF Follows
  <2> QED
    BY <1>0, <2>1, <2>2 DEF Fresh, Owed
<1>12. CASE Steer(a) \/ SwitchEnd(a)
  <2>1. /\ job[a] \in {"steer", "end"} /\ job'[a] \in {"end", "idle"} /\ job'[b] = job[b]
        /\ \A n \in Node : lastPing[n] = "heard" => lastPing'[n] = "heard"
        /\ UNCHANGED <<curr, next, ackReceived, ackThread, asked, ack, monitor, link,
                       radars, taken>>
    BY <1>0, <1>12 DEF Steer, SwitchEnd, Hears, history
  <2>2. Alone(a, b)' /\ Orders(a, b)'
    BY <1>0, <2>1, AnswererKept DEF Follows
  <2> QED
    BY <1>0, <2>1, <2>2 DEF Fresh, Owed
<1> QED
  BY <1>1, <1>2, <1>3, <1>4, <1>5, <1>6, <1>7, <1>8, <1>9, <1>10, <1>11, <1>12
     DEF Message, JobStep

\* The waiting threads of a.
LEMMA AskerThreads ==
    ASSUME Turntable # "missing",
           TypeInv, NEW a \in Node, NEW b \in Node, a # b, ChannelPart(a, b),
           NEW k \in AckThread, AckStep(a, k)
    PROVE  ChannelPart(a, b)'
<1> USE Pair DEF ChannelPart
<1>0. /\ Alone(a, b) /\ Fresh(a) /\ Orders(a, b) /\ Owed(a)
      /\ link \in [Node -> Seq(Frame)]
      /\ curr \in [Node -> Channel] /\ next \in [Node -> Channel]
      /\ taken \in [Node -> Nat] /\ radars[a] \in Nat
      /\ lastPing \in [Node -> {"heard", "silent"}]
      /\ ackThread \in [Node -> 0 .. MaxEvents] /\ ackReceived \in [Node -> BOOLEAN]
      /\ Commands(link[b], taken[b], radars[a], next[a]) /\ Accepts(link[a])
      /\ ~Follows(a)
  BY TypesHold DEF Types, Orders, Alone
<1>1. CASE AckTest(a, k)
  <2> DEFINE p == IF GivesUp(a, k) THEN "give_up"
                  ELSE IF ackReceived[a] THEN "done" ELSE "send"
  <2>1. /\ ack[a][k].pc = "test" /\ ack' = Moved(ack, a, k, p)
        /\ UNCHANGED <<members, job, asked, monitor, link, history>>
    BY <1>1 DEF AckTest, Moved
  <2>2. p \in AckPc /\ (p = "done" => ackReceived[a]) /\ p \in {"give_up", "send", "done"}
    BY DEF AckPc
  <2> HIDE DEF p
  <2>3. /\ ack'[a][k].pc = p
        /\ \A j \in AckThread : j # k => ack'[a][j].pc = ack[a][j].pc
        /\ \A j \in AckThread : ack'[b][j].pc = ack[b][j].pc
    BY <2>1, <2>2, ThreadGoesOn
  <2>4. Alone(a, b)' /\ Orders(a, b)'
    BY <1>0, <2>1, <2>3, AnswererKept DEF Follows, members, history
  <2>5. Fresh(a)'
    BY <1>0, <2>1, <2>3 DEF Fresh, members, history
  <2>6. Owed(a)'
    BY <1>0, <2>1, <2>2, <2>3 DEF Owed, members, history
  <2> QED
    BY <2>4, <2>5, <2>6
<1>2. CASE AckSend(a, k)
  <2>1. /\ ack[a][k].pc = "send" /\ ack' = Moved(ack, a, k, "sleep")
        /\ link'[b] = OnAir(link[b], Switch(next[a], radars[a])) /\ link'[a] = link[a]
        /\ UNCHANGED <<members, job, asked, monitor, history>>
    BY <1>0, <1>2 DEF AckSend, Transmit, Moved
  <2>2. /\ ack'[a][k].pc = "sleep"
        /\ \A j \in AckThread : j # k => ack'[a][j].pc = ack[a][j].pc
        /\ \A j \in AckThread : ack'[b][j].pc = ack[b][j].pc
    BY <2>1, ThreadGoesOn DEF AckPc
  <2>3. Commands(link'[b], taken[b], radars[a], next[a])
    BY <1>0, <2>1, CommandSent DEF Orders
  <2>4. Alone(a, b)' /\ Orders(a, b)'
    BY <1>0, <2>1, <2>2, <2>3, AnswererKept DEF Follows, members, history
  <2>5. Fresh(a)'
    BY <1>0, <2>1, <2>2 DEF Fresh, members, history
  <2>6. Owed(a)'
    BY <1>0, <2>1, <2>2 DEF Owed, members, history
  <2> QED
    BY <2>4, <2>5, <2>6
<1>3. CASE AckSleep(a, k)
  <2> DEFINE t == [pc |-> "test", count |-> ack[a][k].count + 1]
  <2>1. /\ ack[a][k].pc = "sleep" /\ ack' = Replaced(ack, a, k, t) /\ t.pc = "test"
        /\ UNCHANGED <<members, job, asked, monitor, link, history>>
    BY <1>3 DEF AckSleep, Replaced
  <2>2. ack \in AckType /\ t \in Thr
    <3>1. ack \in AckType /\ ack[a][k] \in Thr
      BY DEF TypeInv, TypeOK, AckType, Thr
    <3> QED
      BY <2>1, <3>1, EnoughAssumption DEF Thr, TypeInv, CountBelow, AckPc
  <2> HIDE DEF t
  <2>3. /\ ack'[a][k].pc = "test"
        /\ \A j \in AckThread : j # k => ack'[a][j].pc = ack[a][j].pc
        /\ \A j \in AckThread : ack'[b][j].pc = ack[b][j].pc
    <3>1. /\ ack'[a][k] = t
          /\ \A m \in Node : \A j \in AckThread :
               m # a \/ j # k => ack'[m][j] = ack[m][j]
      BY <2>1, <2>2, AckCounts
    <3> QED
      BY <2>1, <3>1
  <2>4. Alone(a, b)' /\ Orders(a, b)'
    BY <1>0, <2>1, <2>3, AnswererKept DEF Follows, members, history
  <2>5. Fresh(a)'
    BY <1>0, <2>1, <2>3 DEF Fresh, members, history
  <2>6. Owed(a)'
    BY <1>0, <2>1, <2>3 DEF Owed, members, history
  <2> QED
    BY <2>4, <2>5, <2>6
<1>4. CASE AckGiveUp(a, k)
  <2>1. /\ ack[a][k].pc = "give_up" /\ ack' = Moved(ack, a, k, "unset")
        /\ ackReceived'[a]
        /\ UNCHANGED <<curr, next, ackThread, lastPing, job, asked, monitor, link, radars,
                       taken>>
    BY <1>0, <1>4 DEF AckGiveUp, Moved, history
  <2>2. /\ ack'[a][k].pc = "unset"
        /\ \A j \in AckThread : j # k => ack'[a][j].pc = ack[a][j].pc
        /\ \A j \in AckThread : ack'[b][j].pc = ack[b][j].pc
    BY <2>1, ThreadGoesOn DEF AckPc
  <2>3. Alone(a, b)' /\ Orders(a, b)'
    BY <1>0, <2>1, <2>2, AnswererKept DEF Follows
  <2>4. Fresh(a)'
    BY <1>0, <2>1, <2>2 DEF Fresh
  <2>5. Owed(a)'
    BY <1>0, <2>1, <2>2 DEF Owed
  <2> QED
    BY <2>3, <2>4, <2>5
<1>5. CASE AckUnset(a, k)
  <2>1. /\ ack[a][k].pc = "unset" /\ ack' = Moved(ack, a, k, "steer")
        /\ ackThread'[a] = 0
        /\ UNCHANGED <<curr, next, ackReceived, lastPing, job, asked, monitor, link, radars,
                       taken>>
    BY <1>0, <1>5 DEF AckUnset, Moved, history
  <2>2. /\ ack'[a][k].pc = "steer"
        /\ \A j \in AckThread : j # k => ack'[a][j].pc = ack[a][j].pc
        /\ \A j \in AckThread : ack'[b][j].pc = ack[b][j].pc
    BY <2>1, ThreadGoesOn DEF AckPc
  <2>3. Alone(a, b)' /\ Orders(a, b)'
    BY <1>0, <2>1, <2>2, AnswererKept DEF Follows
  <2>4. Fresh(a)'
    BY <1>0, <2>1, <2>2 DEF Fresh
  <2>5. Owed(a)'
    BY <1>0, <2>1, <2>2 DEF Owed
  <2> QED
    BY <2>3, <2>4, <2>5
<1>6. CASE AckSteer(a, k)
  <2>1. /\ ack[a][k].pc = "steer" /\ ack' = Moved(ack, a, k, "set")
        /\ UNCHANGED <<curr, next, ackReceived, ackThread, lastPing, job, asked, monitor,
                       link, radars, taken>>
    BY <1>0, <1>6 DEF AckSteer, Moved, history
  <2>2. /\ ack'[a][k].pc = "set"
        /\ \A j \in AckThread : j # k => ack'[a][j].pc = ack[a][j].pc
        /\ \A j \in AckThread : ack'[b][j].pc = ack[b][j].pc
    BY <2>1, ThreadGoesOn DEF AckPc
  <2>3. Alone(a, b)' /\ Orders(a, b)'
    BY <1>0, <2>1, <2>2, AnswererKept DEF Follows
  <2>4. Fresh(a)'
    BY <1>0, <2>1, <2>2 DEF Fresh
  <2>5. Owed(a)'
    BY <1>0, <2>1, <2>2 DEF Owed
  <2> QED
    BY <2>3, <2>4, <2>5
<1>7. CASE AckSet(a, k)
  <2>1. /\ ack[a][k].pc = "set" /\ ack' = Moved(ack, a, k, "end")
        /\ curr'[a] = next[a] /\ curr'[b] = curr[b]
        /\ UNCHANGED <<next, ackReceived, ackThread, lastPing, job, asked, monitor, link,
                       radars, taken>>
    BY <1>0, <1>7 DEF AckSet, Moved, history, TakeNext
  <2>2. /\ ack'[a][k].pc = "end"
        /\ \A j \in AckThread : j # k => ack'[a][j].pc = ack[a][j].pc
        /\ \A j \in AckThread : ack'[b][j].pc = ack[b][j].pc
    BY <2>1, ThreadGoesOn DEF AckPc
  <2>3. Alone(a, b)' /\ Orders(a, b)'
    BY <1>0, <2>1, <2>2, AnswererKept DEF Follows
  <2>4. Fresh(a)'
    BY <1>0, <2>1, <2>2 DEF Fresh
  <2>5. Owed(a)'
    BY <1>0, <2>1, <2>2 DEF Owed
  <2> QED
    BY <2>3, <2>4, <2>5
<1>8. CASE AckEnd(a, k)
  <2>1. /\ ack[a][k].pc = "end" /\ ack' = Moved(ack, a, k, "done")
        /\ \A n \in Node : lastPing[n] = "heard" => lastPing'[n] = "heard"
        /\ UNCHANGED <<curr, next, ackReceived, ackThread, job, asked, monitor, link,
                       radars, taken>>
    BY <1>0, <1>8 DEF AckEnd, Moved, history
  <2>2. /\ ack'[a][k].pc = "done"
        /\ \A j \in AckThread : j # k => ack'[a][j].pc = ack[a][j].pc
        /\ \A j \in AckThread : ack'[b][j].pc = ack[b][j].pc
    BY <2>1, ThreadGoesOn DEF AckPc
  <2>3. Alone(a, b)' /\ Orders(a, b)'
    BY <1>0, <2>1, <2>2, AnswererKept DEF Follows
  <2>4. Fresh(a)'
    BY <1>0, <2>1, <2>2 DEF Fresh
  <2>5. Owed(a)'
    BY <1>0, <2>1, <2>2 DEF Owed
  <2> QED
    BY <2>3, <2>4, <2>5
<1> QED
  BY <1>1, <1>2, <1>3, <1>4, <1>5, <1>6, <1>7, <1>8 DEF AckStep

\* The rest of a and what the radio does to its link.
LEMMA AskerRest ==
    ASSUME TypeInv, NEW a \in Node, NEW b \in Node, a # b, ChannelPart(a, b),
           Quiet(b), Quiet(b)',
           MonitorStep(a) \/ Lose(a) \/ Silence(a)
    PROVE  ChannelPart(a, b)'
<1> USE Pair DEF ChannelPart
<1>0. /\ Alone(a, b) /\ Fresh(a) /\ Orders(a, b) /\ Owed(a)
      /\ link \in [Node -> Seq(Frame)] /\ silences \in Nat
      /\ Commands(link[b], taken[b], radars[a], next[a]) /\ Accepts(link[a])
      /\ ~Follows(a)
  BY TypesHold DEF Types, Orders, Alone
<1>1. CASE Lose(a)
  <2>1. /\ link[a] # <<>> /\ link'[a] = Tail(link[a]) /\ link'[b] = link[b]
        /\ UNCHANGED <<members, threads, history>>
    BY <1>0, <1>1 DEF Lose
  <2>2. Accepts(link'[a])
    BY <1>0, <2>1, AcceptArrives
  <2>3. Alone(a, b)' /\ Orders(a, b)'
    BY <1>0, <2>1, <2>2, AnswererKept DEF Follows, members, threads, history
  <2> QED
    BY <1>0, <2>1, <2>3 DEF Fresh, Owed, members, threads, history
<1>2. CASE MonitorStep(a)
  BY <1>0, <1>2 DEF Alone, MonitorStep, MonitorTest, MonitorNext, MonitorPos,
                    MonitorSteer, MonitorSet, MonitorEnd
<1>3. CASE Silence(a)
  BY <1>0, <1>3 DEF Silence, Quiet
<1> QED
  BY <1>1, <1>2, <1>3

-----------------------------------------------------------------------------
(* The theorem. *)

\* Radar and silence are never forgotten.
LEMMA QuietBefore ==
    ASSUME TypeInv, [Next]_vars, NEW b \in Node, Quiet(b)'
    PROVE  Quiet(b)
<1>0. radars \in [Node -> Nat] /\ silences \in Nat
  BY TypesHold DEF Types
<1>1. ASSUME NEW n \in Node, RadarNext(n) \/ Silence(n)
      PROVE  radars'[b] >= radars[b] /\ silences' >= silences
  BY <1>0, <1>1 DEF RadarNext, Silence
<1>2. ASSUME NEW n \in Node,
             \/ Message(n) \/ (JobStep(n) /\ ~RadarNext(n)) \/ MonitorStep(n) \/ Lose(n)
             \/ \E k \in AckThread : AckStep(n, k)
      PROVE  UNCHANGED <<radars, silences>>
  <2>1. CASE Message(n)
    BY <2>1 DEF Message, Radar, Ping, SwitchKnown, SwitchAsked, AcceptIgnored, Accepted,
                history
  <2>2. CASE JobStep(n) /\ ~RadarNext(n)
    BY <2>2 DEF JobStep, RadarPos, RadarAck, RadarStart, AcceptAgain, SwitchSet,
                AcceptedThread, AcceptedAlive, AcceptedJoin, AcceptedSet, Steer,
                SwitchEnd, history
  <2>3. CASE MonitorStep(n)
    BY <2>3 DEF MonitorStep, MonitorTest, MonitorNext, MonitorPos, MonitorSteer,
                MonitorSet, MonitorEnd, history
  <2>4. CASE Lose(n)
    BY <2>4 DEF Lose, history
  <2>5. CASE \E k \in AckThread : AckStep(n, k)
    BY <2>5 DEF AckStep, AckTest, AckSend, AckSleep, AckGiveUp, AckUnset, AckSteer,
                AckSet, AckEnd, history
  <2> QED
    BY <1>2, <2>1, <2>2, <2>3, <2>4, <2>5
<1>3. CASE UNCHANGED vars
  BY <1>3 DEF Quiet, vars, history
<1>4. CASE Next
  <2>1. radars'[b] >= radars[b] /\ silences' >= silences
    BY <1>0, <1>1, <1>2, <1>4 DEF Next
  <2> QED
    BY <1>0, <2>1 DEF Quiet
<1> QED
  BY <1>3, <1>4

\* Every step of either node keeps the invariant, which needs the line that turns
\* the antenna not to end the waiting thread.
LEMMA ChannelStep ==
    ASSUME Turntable # "missing", TypeInv, ChannelInv, [Next]_vars
    PROVE  ChannelInv'
<1> SUFFICES ASSUME NEW a \in Node, NEW b \in Node, a # b, Quiet(b)'
             PROVE  ChannelPart(a, b)'
  BY DEF ChannelInv
<1>1. Quiet(b) /\ ChannelPart(a, b)
  BY QuietBefore DEF ChannelInv
<1>2. CASE UNCHANGED vars
  BY <1>1, <1>2 DEF ChannelPart, Alone, Fresh, Orders, Owed, Follows, vars, members,
     threads, history
<1>3. ASSUME NEW n \in Node,
             \/ Message(n) \/ JobStep(n) \/ MonitorStep(n) \/ Lose(n) \/ Silence(n)
             \/ \E k \in AckThread : AckStep(n, k)
      PROVE  ChannelPart(a, b)'
  <2>1. n = a \/ n = b
    BY Pair
  <2>2. CASE n = a
    BY <1>1, <1>3, <2>2, AskerHandlers, AskerThreads, AskerRest
  <2>3. CASE n = b
    BY <1>1, <1>3, <2>3, AnswererStep
  <2> QED
    BY <2>1, <2>2, <2>3
<1> QED
  BY <1>2, <1>3 DEF Next

\* What rests has taken its channel.
LEMMA ChannelSuffices == TypeInv /\ ChannelInv => SameChannel
<1> SUFFICES ASSUME TypeInv, ChannelInv, NEW a \in Node,
                    AtRest(a), AtRest(Peer(a)), OnlyRadarAt(a), silences = 0,
                    taken[Peer(a)] = radars[a]
             PROVE  curr[a] = curr[Peer(a)]
  BY DEF SameChannel
<1>1. Peer(a) \in Node /\ a # Peer(a)
  BY PeerIsNode
<1>2. Orders(a, Peer(a)) /\ Owed(a)
  BY <1>1 DEF ChannelInv, ChannelPart, Quiet, OnlyRadarAt
<1>3. curr[a] = next[a]
  BY <1>2 DEF Owed, AtRest
<1>4. curr[Peer(a)] = next[a]
  BY <1>2 DEF Orders, AtRest, Follows
<1> QED
  BY <1>3, <1>4

\* Whatever happens to commands and acceptances, once both nodes rest and one
\* command of the latest switch has come, they are on one channel, for any
\* number of channels, switches and commands, and also with an antenna that
\* fails to turn.
THEOREM OneChannel ==
    ASSUME Turntable # "missing"
    PROVE  Spec => []SameChannel
<1>1. Init => TypeInv /\ ChannelInv
  BY TypeInit, ChannelInit
<1>2. TypeInv /\ ChannelInv /\ [Next]_vars => (TypeInv /\ ChannelInv)'
  BY TypeStep, ChannelStep
<1>3. TypeInv /\ ChannelInv => SameChannel
  BY ChannelSuffices
<1> QED
  BY <1>1, <1>2, <1>3, PTL DEF Spec

-----------------------------------------------------------------------------
(* The antennas, if they turn. *)

\* b is told to turn along the channel it takes, and does so.
Aimed(b) ==
    /\ nextPos[b] = IF Follows(b) THEN asked[b].chan ELSE curr[b]
    /\ job[b] # "steer" => pos[b] = curr[b]

\* The antenna of a points along the channel of the latest switch, or somebody is
\* left who will turn it there.
Aiming(a) ==
    /\ job[a] # "radar_pos" => nextPos[a] = next[a]
    /\ \/ pos[a] = next[a]
       \/ job[a] \in {"radar_pos", "radar_ack", "ack_thread", "ack_join", "ack_set",
                      "steer"}
       \/ job[a] = "ack_alive" /\ ackThread[a] # 0
       \/ job[a] = "radar_start" /\ ackThread[a] # 0 /\ ~ackReceived[a]
       \/ \E k \in AckThread :
             \/ ack[a][k].pc \in {"give_up", "unset", "steer"}
             \/ ack[a][k].pc \in {"test", "send", "sleep"} /\ ~ackReceived[a]

AimPart(a, b) == Aiming(a) /\ Aimed(b)

AimInv == \A a, b \in Node : a # b /\ Quiet(b) => AimPart(a, b)

\* Initially the antennas point along the first channel.
LEMMA AimInit == Init => AimInv
BY DEF Init, AimInv, AimPart, Aiming, Aimed, Follows

\* An antenna that turns moves to where it is told.
LEMMA Turns ==
    ASSUME Turntable = "turns", TypeInv, NEW n \in Node, MoveTo(n)
    PROVE  pos' = [pos EXCEPT ![n] = nextPos[n]]
BY DEF MoveTo, Positions

\* The step of one node leaves the antenna of the other one alone.
LEMMA AimingKept ==
    ASSUME NEW a \in Node, Aiming(a),
           job'[a] = job[a], nextPos'[a] = nextPos[a], pos'[a] = pos[a],
           UNCHANGED <<next, ackThread, ackReceived, ack>>
    PROVE  Aiming(a)'
BY DEF Aiming

\* The same for b.
LEMMA AimedKept ==
    ASSUME NEW b \in Node, Aimed(b),
           job'[b] = job[b], nextPos'[b] = nextPos[b], pos'[b] = pos[b],
           curr'[b] = curr[b], asked'[b] = asked[b]
    PROVE  Aimed(b)'
BY DEF Aimed, Follows

\* Steps of b.
LEMMA AnswererAims ==
    ASSUME Turntable = "turns",
           TypeInv, NEW a \in Node, NEW b \in Node, a # b, ChannelPart(a, b),
           AimPart(a, b), Quiet(b), Quiet(b)',
           \/ Message(b) \/ JobStep(b) \/ MonitorStep(b) \/ Lose(b) \/ Silence(b)
           \/ \E k \in AckThread : AckStep(b, k)
    PROVE  AimPart(a, b)'
<1> USE DEF AimPart
<1>0. /\ Alone(a, b) /\ Orders(a, b) /\ Aiming(a) /\ Aimed(b) /\ Types
      /\ link \in [Node -> Seq(Frame)] /\ taken \in [Node -> Nat] /\ radars[a] \in Nat
      /\ Commands(link[b], taken[b], radars[a], next[a])
  <2>1. Alone(a, b) /\ Orders(a, b) /\ Aiming(a) /\ Aimed(b)
    BY DEF ChannelPart
  <2> QED
    BY <2>1, TypesHold DEF Types, Orders
<1>1. CASE Lose(b)
  BY <1>0, <1>1, AimingKept, AimedKept DEF Lose, members, threads
<1>2. CASE Radar(b) \/ Ping(b) \/ SwitchKnown(b)
  <2>1. /\ job'[a] = job[a]
        /\ job[b] = "idle" /\ job'[b] \in {"idle", "radar_next"}
        /\ UNCHANGED <<next, ackThread, ackReceived, ack, nextPos, pos, curr, asked>>
    BY <1>0, <1>2 DEF Radar, Ping, SwitchKnown, Arrives, threads, Types
  <2>2. Aiming(a)'
    BY <1>0, <2>1, AimingKept
  <2> QED
    BY <1>0, <2>1, <2>2 DEF Aimed, Follows
<1>3. CASE SwitchAsked(b)
  <2>1. /\ job'[a] = job[a] /\ nextPos'[a] = nextPos[a]
        /\ job[b] = "idle" /\ job'[b] = "accept_2"
        /\ nextPos'[b] = asked'[b].chan
        /\ UNCHANGED <<next, ackThread, ackReceived, ack, pos, curr>>
    BY <1>0, <1>3 DEF SwitchAsked, Arrives, Types
  <2>2. Aiming(a)'
    BY <1>0, <2>1, AimingKept
  <2> QED
    BY <1>0, <2>1, <2>2 DEF Aimed, Follows
<1>4. CASE AcceptAgain(b)
  <2>1. /\ job'[a] = job[a] /\ Follows(b) /\ job'[b] \in {"accept_3", "switch_set"}
        /\ UNCHANGED <<next, ackThread, ackReceived, ack, nextPos, pos, curr, asked>>
    BY <1>0, <1>4 DEF AcceptAgain, members, Follows, Types
  <2>2. Aiming(a)'
    BY <1>0, <2>1, AimingKept
  <2> QED
    BY <1>0, <2>1, <2>2 DEF Aimed, Follows
<1>5. CASE SwitchSet(b)
  <2>1. /\ job'[a] = job[a] /\ job[b] = "switch_set" /\ job'[b] = "steer"
        /\ curr'[b] = asked[b].chan
        /\ UNCHANGED <<next, ackThread, ackReceived, ack, nextPos, pos>>
    BY <1>0, <1>5 DEF SwitchSet, TakeAsked, Types
  <2>2. Aiming(a)'
    BY <1>0, <2>1, AimingKept
  <2> QED
    BY <1>0, <2>1, <2>2 DEF Aimed, Follows
<1>6. CASE Steer(b)
  <2>1. /\ job'[a] = job[a] /\ job[b] = "steer" /\ job'[b] = "end"
        /\ pos'[a] = pos[a] /\ pos'[b] = nextPos[b]
        /\ UNCHANGED <<next, ackThread, ackReceived, ack, nextPos, curr, asked>>
    BY <1>0, <1>6, Turns DEF Steer, Types
  <2>2. Aiming(a)'
    BY <1>0, <2>1, AimingKept
  <2> QED
    BY <1>0, <2>1, <2>2 DEF Aimed, Follows
<1>7. CASE SwitchEnd(b)
  <2>1. /\ job'[a] = job[a] /\ job[b] = "end" /\ job'[b] = "idle"
        /\ UNCHANGED <<next, ackThread, ackReceived, ack, nextPos, pos, curr, asked>>
    BY <1>0, <1>7 DEF SwitchEnd, Types
  <2>2. Aiming(a)'
    BY <1>0, <2>1, AimingKept
  <2> QED
    BY <1>0, <2>1, <2>2 DEF Aimed, Follows
<1>8. CASE AcceptIgnored(b) \/ Accepted(b)
  <2>1. link[b] # <<>> /\ Head(link[b]).type = "accept"
    BY <1>8 DEF AcceptIgnored, Accepted, Arrives
  <2>2. Head(link[b]).type = "switch"
    BY <1>0, <2>1, CommandArrives
  <2> QED
    BY <2>1, <2>2
<1>9. CASE RadarNext(b)
  BY <1>0, <1>9, BoundAssumption DEF RadarNext, Quiet, Types
<1>10. CASE \/ RadarPos(b) \/ RadarAck(b) \/ RadarStart(b) \/ AcceptedThread(b)
            \/ AcceptedAlive(b) \/ AcceptedJoin(b) \/ AcceptedSet(b)
  BY <1>0, <1>10 DEF Alone, RadarPos, RadarAck, RadarStart, AcceptedThread,
                     AcceptedAlive, AcceptedJoin, AcceptedSet
<1>11. CASE MonitorStep(b)
  BY <1>0, <1>11 DEF Alone, MonitorStep, MonitorTest, MonitorNext, MonitorPos,
                     MonitorSteer, MonitorSet, MonitorEnd
<1>12. CASE Silence(b)
  BY <1>0, <1>12 DEF Silence, Quiet, Types
<1>13. CASE \E k \in AckThread : AckStep(b, k)
  BY <1>0, <1>13 DEF Alone, AckStep, AckTest, AckSend, AckSleep, AckGiveUp, AckUnset,
                     AckSteer, AckSet, AckEnd
<1> QED
  BY <1>1, <1>2, <1>3, <1>4, <1>5, <1>6, <1>7, <1>8, <1>9, <1>10, <1>11, <1>12, <1>13
     DEF Message, JobStep

\* Steps of the block's thread of a.
LEMMA AskerAims ==
    ASSUME Turntable = "turns",
           TypeInv, NEW a \in Node, NEW b \in Node, a # b, ChannelPart(a, b),
           AimPart(a, b), Quiet(b), Quiet(b)',
           Message(a) \/ JobStep(a) \/ MonitorStep(a) \/ Lose(a) \/ Silence(a)
    PROVE  AimPart(a, b)'
<1> USE DEF AimPart
<1>0. /\ Alone(a, b) /\ Fresh(a) /\ Aiming(a) /\ Aimed(b) /\ Types
      /\ link \in [Node -> Seq(Frame)]
  BY TypesHold DEF Types, ChannelPart
<1>1. CASE Lose(a)
  BY <1>0, <1>1, AimingKept, AimedKept DEF Lose, members, threads
<1>2. CASE Radar(a) \/ AcceptIgnored(a) \/ SwitchEnd(a)
  <2>1. /\ job'[b] = job[b]
        /\ job[a] \in {"idle", "end"} /\ job'[a] \in {"idle", "radar_next"}
        /\ UNCHANGED <<next, ackThread, ackReceived, ack, nextPos, pos, curr, asked>>
    BY <1>0, <1>2 DEF Radar, AcceptIgnored, SwitchEnd, Arrives, threads, Types
  <2>2. Aimed(b)'
    BY <1>0, <2>1, AimedKept
  <2> QED
    BY <1>0, <2>1, <2>2 DEF Aiming
<1>3. CASE RadarNext(a)
  <2>1. /\ job'[b] = job[b] /\ job'[a] = "radar_pos"
        /\ UNCHANGED <<nextPos, pos, curr, asked>>
    BY <1>0, <1>3 DEF RadarNext, Types
  <2>2. Aimed(b)'
    BY <1>0, <2>1, AimedKept
  <2> QED
    BY <1>0, <2>1, <2>2 DEF Aiming
<1>4. CASE RadarPos(a)
  <2>1. /\ job'[b] = job[b] /\ job'[a] = "radar_ack"
        /\ nextPos'[a] = next[a] /\ nextPos'[b] = nextPos[b]
        /\ UNCHANGED <<next, pos, curr, asked>>
    BY <1>0, <1>4 DEF RadarPos, Types
  <2>2. Aimed(b)'
    BY <1>0, <2>1, AimedKept
  <2> QED
    BY <1>0, <2>1, <2>2 DEF Aiming
<1>5. CASE RadarAck(a)
  <2>1. /\ job[a] = "radar_ack" /\ job'[b] = job[b] /\ job'[a] = "radar_start"
        /\ ~ackReceived'[a] /\ ackThread'[a] = radars[a] /\ radars[a] # 0
        /\ UNCHANGED <<next, nextPos, pos, curr, asked>>
    BY <1>0, <1>5 DEF RadarAck, NoneReceived, Types, Fresh, AckThread
  <2>2. Aimed(b)'
    BY <1>0, <2>1, AimedKept
  <2> QED
    BY <1>0, <2>1, <2>2 DEF Aiming
<1>6. CASE RadarStart(a)
  <2>1. /\ job[a] = "radar_start" /\ job'[b] = job[b] /\ job'[a] \in {"dead", "idle"}
        /\ UNCHANGED <<members, asked>>
    <3>1. \/ job' = [job EXCEPT ![a] = "dead"]
          \/ job' = [job EXCEPT ![a] = "idle"]
      BY <1>6, Zenon DEF RadarStart
    <3>2. job[a] = "radar_start" /\ UNCHANGED <<members, asked>>
      BY <1>6, Zenon DEF RadarStart
    <3> QED
      BY <1>0, <3>1, <3>2 DEF Types
  <2>2. Aimed(b)'
    BY <1>0, <2>1, AimedKept DEF members
  <2>3. CASE ackThread[a] = 0
    <3>1. ack' = ack
      BY <1>6, <2>3 DEF RadarStart
    <3> QED
      BY <1>0, <2>1, <2>2, <2>3, <3>1 DEF Aiming, members
  <2>4. CASE ackThread[a] # 0
    <3>1. /\ ackThread[a] = radars[a] /\ ackThread[a] \in AckThread
          /\ ack[a][ackThread[a]].pc = "none"
      BY <1>0, <2>1, <2>4 DEF Fresh
    <3>2. ack' = Moved(ack, a, ackThread[a], "test")
      BY <1>6, <2>4 DEF RadarStart, Moved
    <3>3. /\ ack'[a][ackThread[a]].pc = "test"
          /\ \A j \in AckThread : j # ackThread[a] => ack'[a][j].pc = ack[a][j].pc
      BY <3>1, <3>2, ThreadGoesOn DEF AckPc
    <3> QED
      BY <1>0, <2>1, <2>2, <3>1, <3>3 DEF Aiming, members
  <2> QED
    BY <2>3, <2>4
<1>7. CASE Ping(a) \/ SwitchKnown(a) \/ SwitchAsked(a) \/ AcceptAgain(a) \/ SwitchSet(a)
  <2>1. lastPing[a] = "heard" /\ ~Follows(a)
        /\ (link[a] # <<>> => Head(link[a]).type = "accept")
    BY <1>0, AcceptArrives DEF Alone
  <2> QED
    BY <1>7, <2>1 DEF Ping, SwitchKnown, SwitchAsked, AcceptAgain, SwitchSet, Arrives,
                      Follows
<1>8. CASE Accepted(a)
  <2>1. /\ job'[b] = job[b] /\ job[a] = "idle" /\ job'[a] = "ack_thread"
        /\ UNCHANGED <<next, nextPos, pos, curr, asked>>
    BY <1>0, <1>8 DEF Accepted, Arrives, Types
  <2>2. Aimed(b)'
    BY <1>0, <2>1, AimedKept
  <2> QED
    BY <1>0, <2>1, <2>2 DEF Aiming
<1>9. CASE AcceptedThread(a) \/ AcceptedAlive(a) \/ AcceptedJoin(a)
  <2>1. /\ job[a] \in {"ack_thread", "ack_alive", "ack_join"} /\ job'[b] = job[b]
        /\ job[a] = "ack_thread" =>
              job'[a] = IF ackThread[a] = 0 THEN "ack_set" ELSE "ack_alive"
        /\ job[a] = "ack_alive" =>
              job'[a] = IF ackThread[a] = 0 THEN "dead" ELSE "ack_join"
        /\ job[a] = "ack_join" => job'[a] = "ack_set"
        /\ UNCHANGED <<members, asked, ack>>
    BY <1>0, <1>9 DEF AcceptedThread, AcceptedAlive, AcceptedJoin, Types
  <2>2. Aimed(b)'
    BY <1>0, <2>1, AimedKept DEF members
  <2> QED
    BY <1>0, <2>1, <2>2 DEF Aiming, members
<1>10. CASE AcceptedSet(a)
  <2>1. /\ job[a] = "ack_set" /\ job'[b] = job[b] /\ job'[a] = "steer"
        /\ curr'[b] = curr[b]
        /\ UNCHANGED <<next, nextPos, pos, asked>>
    BY <1>0, <1>10 DEF AcceptedSet, TakeNext, Types
  <2>2. Aimed(b)'
    BY <1>0, <2>1, AimedKept
  <2> QED
    BY <1>0, <2>1, <2>2 DEF Aiming
<1>11. CASE Steer(a)
  <2>1. /\ job[a] = "steer" /\ job'[b] = job[b] /\ job'[a] = "end"
        /\ pos'[a] = nextPos[a] /\ pos'[b] = pos[b]
        /\ UNCHANGED <<next, nextPos, curr, asked>>
    BY <1>0, <1>11, Turns DEF Steer, Types
  <2>2. Aimed(b)'
    BY <1>0, <2>1, AimedKept
  <2> QED
    BY <1>0, <2>1, <2>2 DEF Aiming
<1>12. CASE MonitorStep(a)
  BY <1>0, <1>12 DEF Alone, MonitorStep, MonitorTest, MonitorNext, MonitorPos,
                     MonitorSteer, MonitorSet, MonitorEnd
<1>13. CASE Silence(a)
  BY <1>0, <1>13 DEF Silence, Quiet, Types
<1> QED
  BY <1>1, <1>2, <1>3, <1>4, <1>5, <1>6, <1>7, <1>8, <1>9, <1>10, <1>11, <1>12, <1>13
     DEF Message, JobStep

\* Steps of the waiting threads of a.
LEMMA ThreadsAim ==
    ASSUME Turntable = "turns",
           TypeInv, NEW a \in Node, NEW b \in Node, a # b, AimPart(a, b),
           NEW k \in AckThread, AckStep(a, k)
    PROVE  AimPart(a, b)'
<1> USE DEF AimPart
<1>0. Aiming(a) /\ Aimed(b) /\ Types
  BY TypesHold
<1>1. CASE AckTest(a, k)
  <2> DEFINE p == IF GivesUp(a, k) THEN "give_up"
                  ELSE IF ackReceived[a] THEN "done" ELSE "send"
  <2>1. /\ ack[a][k].pc = "test" /\ ack' = Moved(ack, a, k, p)
        /\ UNCHANGED <<members, job, asked>>
    BY <1>1 DEF AckTest, Moved
  <2>2. p \in AckPc /\ (p = "done" => ackReceived[a]) /\ p \in {"give_up", "send", "done"}
    BY DEF AckPc
  <2> HIDE DEF p
  <2>3. /\ ack'[a][k].pc = p
        /\ \A j \in AckThread : j # k => ack'[a][j].pc = ack[a][j].pc
    BY <2>1, <2>2, ThreadGoesOn
  <2>4. Aimed(b)'
    BY <1>0, <2>1, AimedKept DEF members
  <2> QED
    BY <1>0, <2>1, <2>2, <2>3, <2>4 DEF Aiming, members
<1>2. CASE AckSleep(a, k)
  <2> DEFINE t == [pc |-> "test", count |-> ack[a][k].count + 1]
  <2>1. /\ ack[a][k].pc = "sleep" /\ ack' = Replaced(ack, a, k, t) /\ t.pc = "test"
        /\ UNCHANGED <<members, job, asked>>
    BY <1>2 DEF AckSleep, Replaced
  <2>2. ack \in AckType /\ t \in Thr
    <3>1. ack \in AckType /\ ack[a][k] \in Thr
      BY DEF TypeInv, TypeOK, AckType, Thr
    <3> QED
      BY <2>1, <3>1, EnoughAssumption DEF Thr, TypeInv, CountBelow, AckPc
  <2> HIDE DEF t
  <2>3. /\ ack'[a][k].pc = "test"
        /\ \A j \in AckThread : j # k => ack'[a][j].pc = ack[a][j].pc
    <3>1. /\ ack'[a][k] = t
          /\ \A m \in Node : \A j \in AckThread :
               m # a \/ j # k => ack'[m][j] = ack[m][j]
      BY <2>1, <2>2, AckCounts
    <3> QED
      BY <2>1, <3>1
  <2>4. Aimed(b)'
    BY <1>0, <2>1, AimedKept DEF members
  <2> QED
    BY <1>0, <2>1, <2>3, <2>4 DEF Aiming, members
<1>3. CASE AckSend(a, k)
  <2>1. /\ ack[a][k].pc = "send" /\ ack' = Moved(ack, a, k, "sleep")
        /\ UNCHANGED <<next, nextPos, pos, curr, ackThread, ackReceived, job, asked>>
    BY <1>0, <1>3 DEF AckSend, Moved, Types, members
  <2>2. /\ ack'[a][k].pc = "sleep"
        /\ \A j \in AckThread : j # k => ack'[a][j].pc = ack[a][j].pc
    BY <2>1, ThreadGoesOn DEF AckPc
  <2>3. Aimed(b)'
    BY <1>0, <2>1, AimedKept
  <2> QED
    BY <1>0, <2>1, <2>2, <2>3 DEF Aiming
<1>4. CASE AckGiveUp(a, k)
  <2>1. /\ ack[a][k].pc = "give_up" /\ ack' = Moved(ack, a, k, "unset")
        /\ UNCHANGED <<next, nextPos, pos, curr, ackThread, job, asked>>
    BY <1>0, <1>4 DEF AckGiveUp, Moved, Types
  <2>2. /\ ack'[a][k].pc = "unset"
        /\ \A j \in AckThread : j # k => ack'[a][j].pc = ack[a][j].pc
    BY <2>1, ThreadGoesOn DEF AckPc
  <2>3. Aimed(b)'
    BY <1>0, <2>1, AimedKept
  <2> QED
    BY <1>0, <2>1, <2>2, <2>3 DEF Aiming
<1>5. CASE AckUnset(a, k)
  <2>1. /\ ack[a][k].pc = "unset" /\ ack' = Moved(ack, a, k, "steer")
        /\ UNCHANGED <<next, nextPos, pos, curr, ackReceived, job, asked>>
    BY <1>0, <1>5 DEF AckUnset, Moved, Types
  <2>2. /\ ack'[a][k].pc = "steer"
        /\ \A j \in AckThread : j # k => ack'[a][j].pc = ack[a][j].pc
    BY <2>1, ThreadGoesOn DEF AckPc
  <2>3. Aimed(b)'
    BY <1>0, <2>1, AimedKept
  <2> QED
    BY <1>0, <2>1, <2>2, <2>3 DEF Aiming
<1>6. CASE AckSteer(a, k)
  <2>1. /\ ack[a][k].pc = "steer" /\ ack' = Moved(ack, a, k, "set")
        /\ pos'[a] = nextPos[a] /\ pos'[b] = pos[b]
        /\ UNCHANGED <<next, nextPos, curr, ackThread, ackReceived, job, asked>>
    BY <1>0, <1>6, Turns DEF AckSteer, Moved, Types
  <2>2. /\ ack'[a][k].pc = "set"
        /\ \A j \in AckThread : j # k => ack'[a][j].pc = ack[a][j].pc
    BY <2>1, ThreadGoesOn DEF AckPc
  <2>3. Aimed(b)'
    BY <1>0, <2>1, AimedKept
  <2> QED
    BY <1>0, <2>1, <2>2, <2>3 DEF Aiming
<1>7. CASE AckSet(a, k)
  <2>1. /\ ack[a][k].pc = "set" /\ ack' = Moved(ack, a, k, "end")
        /\ curr'[b] = curr[b]
        /\ UNCHANGED <<next, nextPos, pos, ackThread, ackReceived, job, asked>>
    BY <1>0, <1>7 DEF AckSet, Moved, Types, TakeNext
  <2>2. /\ ack'[a][k].pc = "end"
        /\ \A j \in AckThread : j # k => ack'[a][j].pc = ack[a][j].pc
    BY <2>1, ThreadGoesOn DEF AckPc
  <2>3. Aimed(b)'
    BY <1>0, <2>1, AimedKept
  <2> QED
    BY <1>0, <2>1, <2>2, <2>3 DEF Aiming
<1>8. CASE AckEnd(a, k)
  <2>1. /\ ack[a][k].pc = "end" /\ ack' = Moved(ack, a, k, "done")
        /\ UNCHANGED <<next, nextPos, pos, curr, ackThread, ackReceived, job, asked>>
    BY <1>0, <1>8 DEF AckEnd, Moved, Types
  <2>2. /\ ack'[a][k].pc = "done"
        /\ \A j \in AckThread : j # k => ack'[a][j].pc = ack[a][j].pc
    BY <2>1, ThreadGoesOn DEF AckPc
  <2>3. Aimed(b)'
    BY <1>0, <2>1, AimedKept
  <2> QED
    BY <1>0, <2>1, <2>2, <2>3 DEF Aiming
<1> QED
  BY <1>1, <1>2, <1>3, <1>4, <1>5, <1>6, <1>7, <1>8 DEF AckStep

\* Every step of either node keeps it.
LEMMA AimStep ==
    ASSUME Turntable = "turns", TypeInv, ChannelInv, AimInv, [Next]_vars
    PROVE  AimInv'
<1> SUFFICES ASSUME NEW a \in Node, NEW b \in Node, a # b, Quiet(b)'
             PROVE  AimPart(a, b)'
  BY DEF AimInv
<1>1. Quiet(b) /\ ChannelPart(a, b) /\ AimPart(a, b)
  BY QuietBefore DEF ChannelInv, AimInv
<1>2. CASE UNCHANGED vars
  BY <1>1, <1>2 DEF AimPart, Aiming, Aimed, Follows, vars, members, threads
<1>3. ASSUME NEW n \in Node,
             \/ Message(n) \/ JobStep(n) \/ MonitorStep(n) \/ Lose(n) \/ Silence(n)
             \/ \E k \in AckThread : AckStep(n, k)
      PROVE  AimPart(a, b)'
  <2>1. n = a \/ n = b
    BY Pair
  <2>2. CASE n = a
    BY <1>1, <1>3, <2>2, AskerAims, ThreadsAim
  <2>3. CASE n = b
    BY <1>1, <1>3, <2>3, AnswererAims
  <2> QED
    BY <2>1, <2>2, <2>3
<1> QED
  BY <1>2, <1>3 DEF Next

\* A node that rests points along its channel.
LEMMA AimSuffices ==
    ASSUME Turntable = "turns", TypeInv, ChannelInv, AimInv
    PROVE  AntennaFollows
<1> SUFFICES ASSUME NEW n \in Node, NEW m \in Node, AtRest(n), OnlyRadarAt(m),
                    silences = 0
             PROVE  pos[n] = curr[n]
  BY DEF AntennaFollows
<1>1. Peer(m) \in Node /\ m # Peer(m) /\ Quiet(Peer(m))
  BY PeerIsNode DEF OnlyRadarAt, Quiet
<1>2. Owed(m) /\ Aiming(m) /\ Aimed(Peer(m))
  BY <1>1 DEF ChannelInv, ChannelPart, AimInv, AimPart
<1>3. CASE n = m
  <2>1. curr[m] = next[m]
    BY <1>2, <1>3 DEF Owed, AtRest
  <2>2. pos[m] = next[m]
    BY <1>2, <1>3 DEF Aiming, AtRest
  <2> QED
    BY <1>3, <2>1, <2>2
<1>4. CASE n = Peer(m)
  BY <1>2, <1>4 DEF Aimed, AtRest
<1> QED
  BY <1>1, <1>3, <1>4, Pair

\* Once a node rests, its antenna points along its channel, whichever of the two
\* threads turned it last.
THEOREM AntennaAlongChannel == Spec => []AntennaFollows
<1>1. CASE Turntable = "turns"
  <2> DEFINE Inv == TypeInv /\ ChannelInv /\ AimInv
  <2>1. Init => Inv
    BY TypeInit, ChannelInit, AimInit
  <2>2. Inv /\ [Next]_vars => Inv'
    BY <1>1, TypeStep, ChannelStep, AimStep
  <2>3. Inv => AntennaFollows
    BY <1>1, AimSuffices
  <2> HIDE DEF Inv
  <2> QED
    BY <2>1, <2>2, <2>3, PTL DEF Spec
<1>2. CASE Turntable # "turns"
  <2>1. AntennaFollows
    BY <1>2 DEF AntennaFollows
  <2> QED
    BY <2>1, PTL
<1> QED
  BY <1>1, <1>2
=============================================================================
